---- MODULE Spec2Model ----
(***************************************************************************)
(* Model of the WBOR archiver's Placement Engine                           *)
(* (archive-watchdog/file_watchdog.py, archive-watchdog/utils/mq_client.py)*)
(* One handler invocation of ArchiveHandler.on_moved is a sequence of      *)
(* steps, one per blocking call (makedirs, open, flock, exists, hash,      *)
(* replace, connect, publish).  Several engine instances run the handler   *)
(* concurrently on one archive tree.  The capture monitor is the           *)
(* environment that renames finished segments into the archive root.       *)
(***************************************************************************)
EXTENDS Integers, Sequences, FiniteSets, TLC

\* ------------------------------------------------------------------ bounds
NumEngines == 2
MaxFiles == 2
MaxContent == 2
MaxFaults == 2

MaxSegments == 3
MaxNoise == 1
MaxRenameFaults == 1
\* longest segment duration (seconds) tried besides the usual ones
MaxDuration == 7
\* largest conflict counter appended to a file name
MaxCounter == 12

\* handle_signal: self.ffmpeg_process.wait(timeout=5).
GracePeriod == 5

Procs == 1..NumEngines
Contents == 1..MaxContent

\* ------------------------------------------------------- names and paths
\* A file name is a stem (everything up to the `Z`, or an arbitrary text)
\* followed by conflict counters `-n` and the extension `.mp3`.
\* A directory is the tuple of its components below ARCHIVE_DIR.
ARCHIVE_DIR == <<>>
UNMATCHED_DIR == <<"unmatched">>

\* The stems the capture monitor produces in this model, with the fields
\* FILENAME_REGEX extracts from them.
Stamps ==
  [ X |-> [year |-> "2025", month |-> "02", day |-> "14",
           hour |-> "00", minute |-> "35", second |-> "01"],
    Y |-> [year |-> "2025", month |-> "02", day |-> "15",
           hour |-> "00", minute |-> "00", second |-> "00"] ]

NoStamp == [year |-> "", month |-> "", day |-> "",
            hour |-> "", minute |-> "", second |-> ""]

Stems == DOMAIN Stamps \cup {"garbage"}

MkName(s, o) == [stem |-> s, ord |-> o]
NoName == MkName("", <<>>)
IncomingNames == {MkName(s, <<>>) : s \in Stems}

MkPath(d, n) == [dir |-> d, name |-> n]
NoPath == MkPath(<<"?">>, NoName)

\* FILENAME_REGEX.match(filename): a timestamp stem followed by at most one
\* counter matches; the groups are the stem's fields.
Matches(filename) ==
  /\ filename.stem \in DOMAIN Stamps
  /\ Len(filename.ord) <= 1

Groups(filename) == IF Matches(filename) THEN Stamps[filename.stem] ELSE NoStamp

\* A dated directory that leaves out the day.
TargetDir_Flat(filename) ==
  IF Matches(filename)
  THEN <<Groups(filename).year, Groups(filename).month>>
  ELSE UNMATCHED_DIR

\* os.path.join(ARCHIVE_DIR, year, month, day) / os.path.join(ARCHIVE_DIR, UNMATCHED_DIR)
TargetDir(filename) ==
  IF Matches(filename)
  THEN <<Groups(filename).year, Groups(filename).month, Groups(filename).day>>
  ELSE UNMATCHED_DIR

\* f"{base}-{counter}{ext}" with base, ext = os.path.splitext(filename)
WithCounter(filename, counter) == MkName(filename.stem, Append(filename.ord, counter))

\* hashlib.sha256 of the bytes: equal digests exactly for equal contents.
NoHash == <<>>
Digest(c) == <<c>>

\* ------------------------------------------------------------------ state
VARIABLES
  files,       \* the file system: path -> content of the file there
  dirs,        \* directories that exist below ARCHIVE_DIR
  lockFiles,   \* directories that hold a `.lock` file
  lockHolder,  \* directory -> engine holding flock(LOCK_EX) on its .lock, 0 if none
  queue,       \* per engine: rename events not yet handled (file names)
  pc,          \* per engine: position in on_moved
  frame,       \* per engine: locals of the running on_moved call
  conn,        \* per engine: RABBITMQ_CLIENT's connection/channel
  sinkUp,      \* the broker is reachable
  published,   \* messages the broker accepted
  nfiles,      \* segments finalized so far
  faults,      \* environment failures injected so far
  moveLog      \* history: path -> number of completed moves of line 245 into it

\* The capture monitor (recording/recording_driver.py) and the capture process
\* it supervises.  Segments are numbered in the order the capture process
\* opens them: segment i is the file `<STATION_ID>-<time i>Z.temp`.
VARIABLES
  stderr,          \* lines the capture process wrote and the monitor has not read
  active_segment,  \* Recorder.active_segment
  writing,         \* the segment the capture process has open, NoSegment if none
  temps,           \* provisional files: segment -> content
  finals,          \* final files in the capture directory: segment -> content
  nopened,         \* segments opened so far
  unlogged,        \* segments closed whose `ended` line is not yet written
  ended_seen,      \* history: segments whose `ended` line the monitor processed
  noise,           \* other lines written so far
  mfaults,         \* rename failures injected so far
  ffmpeg,          \* the capture process: "none", "running", "exited"
  returncode,      \* its exit code: "none", "ok" (0), "fail" (not 0)
  main,            \* the main thread: position in Recorder.run / handle_signal
  status,          \* the monitor's exit status: "none", "0", "1"
  reader,          \* the thread running ffmpeg_log_handler
  sent_signals,    \* signals sent to the capture process's group, in order
  signalled,       \* a termination signal has reached the monitor
  elapsed          \* seconds waited in handle_signal's wait(timeout=5)

\* Recorder.time_until_next_segment and the sleep of Recorder.run that uses it.
VARIABLES
  now,                       \* the wall clock (UTC): hour, minute, second
  SEGMENT_DURATION_SECONDS,  \* the configured segment duration
  sleep_time,                \* what time_until_next_segment returned
  clock_pc                   \* "off", "start", "sleeping", "started"

\* A file name on its way from the capture process through FILENAME_REGEX to
\* the backend's build_expected_filename.  Text is a sequence of characters.
VARIABLES
  origin,             \* station id, time and conflict counter the name was made from
  dest_name,          \* the file name, as text
  match,              \* FILENAME_REGEX.match(dest_name): its groups, or NoMatch
  expected_filename,  \* what build_expected_filename returned
  codec_pc            \* "off", "start", "parsed", "built"

\* One call of ArchiveHandler.on_moved with an arbitrary event.
VARIABLES
  event,      \* is_directory, extensions of src_path and dest_path
  effects,    \* what the call did: directory, lock file, move, notification
  filter_pc   \* "off", "delivered", "returned", "placing", "placed"

\* file_watchdog.py main(): the main thread of one engine's process.
VARIABLES
  stopped,    \* the engine whose process got the keyboard interrupt, 0 if none
  stage       \* its main thread: "watching", "stopping", "closed", "exited"

\* The backend: the lifespan of the web application, the consumer thread it
\* starts, the broker's queue of notifications and the table of segments.
VARIABLES
  build,       \* which of the repository's backends runs, "none" before startup
  lifespan,    \* the lifespan: "off", "serving", "joining", "down"
  stop_event,  \* stop_event.is_set()
  consumer,    \* the consumer thread: position in _rabbitmq_consumer / _on_message
  link,        \* the consumer's connection to the broker: "none", "open", "lost"
  ready,       \* RABBITMQ_QUEUE: messages waiting for delivery
  unacked,     \* the message the broker delivered and holds until its ack
  handling,    \* the message the running callback was called with
  deliveries,  \* history: every call of the callback, in order
  segments,    \* the rows of the table `segments`
  arrived,     \* messages routed to the queue so far
  drops        \* connection failures injected so far

evars == <<files, dirs, lockFiles, lockHolder, queue, pc, frame, conn, sinkUp,
           published, nfiles, faults, moveLog>>

svars == <<stderr, active_segment, writing, temps, finals, nopened, unlogged,
           ended_seen, noise, mfaults>>

lvars == <<ffmpeg, returncode, main, status, reader, sent_signals, signalled, elapsed>>

mvars == <<svars, lvars>>

cvars == <<now, SEGMENT_DURATION_SECONDS, sleep_time, clock_pc>>

nvars == <<origin, dest_name, match, expected_filename, codec_pc>>

fvars == <<event, effects, filter_pc>>

kvars == <<stopped, stage>>

bvars == <<build, lifespan, stop_event, consumer, link, ready, unacked, handling,
           deliveries, segments, arrived, drops>>

xvars == <<kvars, bvars>>

pvars == <<cvars, nvars, fvars, xvars>>

vars == <<files, dirs, lockFiles, lockHolder, queue, pc, frame, conn, sinkUp,
          published, nfiles, faults, moveLog,
          stderr, active_segment, writing, temps, finals, nopened, unlogged,
          ended_seen, noise, mfaults,
          ffmpeg, returncode, main, status, reader, sent_signals, signalled, elapsed,
          now, SEGMENT_DURATION_SECONDS, sleep_time, clock_pc,
          origin, dest_name, match, expected_filename, codec_pc,
          event, effects, filter_pc,
          stopped, stage,
          build, lifespan, stop_event, consumer, link, ready, unacked, handling,
          deliveries, segments, arrived, drops>>

AllDirs == {TargetDir(n) : n \in IncomingNames} \cup {UNMATCHED_DIR}

Exists(path) == path \in DOMAIN files

\* os.replace(src, dst) when it succeeds: dst now holds src's bytes, whatever
\* was at dst before is gone, src no longer exists.
Replace(fs, src, dst) ==
  [p \in (DOMAIN fs \ {src}) \cup {dst} |-> IF p = dst THEN fs[src] ELSE fs[p]]

\* One more completed move into `path`.
Logged(log, path) ==
  IF path \in DOMAIN log THEN [log EXCEPT ![path] = @ + 1] ELSE log @@ (path :> 1)

\* A file that cannot be opened hashed as an empty one.
compute_file_hash_Missing(path) == IF Exists(path) THEN Digest(files[path]) ELSE Digest(0)

\* compute_file_hash(file_path) when no I/O error is injected.
compute_file_hash(path) == IF Exists(path) THEN Digest(files[path]) ELSE NoHash

IdleFrame ==
  [ filename |-> NoName, matched |-> FALSE, target_dir |-> <<"?">>,
    new_location |-> NoPath, new_file_hash |-> NoHash,
    existing_file_hash |-> NoHash, counter |-> 0, temp_location |-> NoPath,
    \* history of the call, for the properties
    conflict |-> FALSE, moved |-> FALSE, quarantined |-> FALSE,
    sent |-> <<>>, sinkError |-> "none", outcome |-> "none" ]

SrcPath(p) == MkPath(ARCHIVE_DIR, frame[p].filename)

\* What earlier runs of the engine can have left below ARCHIVE_DIR: nothing;
\* one placed segment; a segment and a conflict-renamed second one.  In the
\* last two the unmatched directory exists (and is empty).
EarlierName == MkName("X", <<>>)
EarlierSlot == MkPath(TargetDir(EarlierName), EarlierName)
InitialArchives ==
  { [files |-> <<>>, dirs |-> {}],
    [files |-> EarlierSlot :> 1,
     dirs |-> {EarlierSlot.dir, UNMATCHED_DIR}],
    [files |-> (EarlierSlot :> 1)
                 @@ (MkPath(EarlierSlot.dir, WithCounter(EarlierName, 1)) :> 2),
     dirs |-> {EarlierSlot.dir, UNMATCHED_DIR}] }

\* Recorder.__init__ (lines 188-190) and the start of Recorder.run: no capture
\* process yet, no active segment, an empty capture directory, the main
\* thread sleeping until the segment boundary (line 311).
NoSegment == 0
RecorderStart ==
  /\ stderr = <<>>
  /\ active_segment = NoSegment
  /\ writing = NoSegment
  /\ temps = <<>>
  /\ nopened = 0
  /\ unlogged = {}
  /\ ended_seen = {}
  /\ noise = 0
  /\ mfaults = 0
  /\ ffmpeg = "none"
  /\ returncode = "none"
  /\ main = "sleeping"
  /\ status = "none"
  /\ reader = "not_started"
  /\ sent_signals = <<>>
  /\ signalled = FALSE
  /\ elapsed = 0

RecorderInit ==
  /\ finals = <<>>
  /\ RecorderStart

\* The clock, the file-name and the event components at rest.
Midnight == [hour |-> 0, minute |-> 0, second |-> 0]
ClockIdle ==
  /\ now = Midnight
  /\ SEGMENT_DURATION_SECONDS = 1
  /\ sleep_time = 0
  /\ clock_pc = "off"

NoMatch == [matched |-> FALSE]
NoOrigin == [station |-> <<>>, time |-> Midnight, counter |-> 0]
CodecIdle ==
  /\ origin = NoOrigin
  /\ dest_name = <<>>
  /\ match = NoMatch
  /\ expected_filename = <<>>
  /\ codec_pc = "off"

NoEvent == [is_directory |-> FALSE, src_ext |-> "", dst_ext |-> "", canonical |-> FALSE]
NoEffects == [dir |-> "none", lock |-> FALSE, moved |-> FALSE, published |-> FALSE]
FilterIdle ==
  /\ event = NoEvent
  /\ effects = NoEffects
  /\ filter_pc = "off"

\* main() is in its `while True: time.sleep(1)` loop (lines 292-294).
Watching ==
  /\ stopped = 0
  /\ stage = "watching"

\* The backend before its application starts: no consumer thread, nothing in
\* the queue, an empty table.
NoMessage == [id |-> 0, json |-> FALSE,
              payload |-> [filename |-> NoName, timestamp |-> NoStamp]]
BackendOff ==
  /\ build = "none"
  /\ lifespan = "off"
  /\ stop_event = FALSE
  /\ consumer = "none"
  /\ link = "none"
  /\ ready = <<>>
  /\ unacked = NoMessage
  /\ handling = NoMessage
  /\ deliveries = <<>>
  /\ segments = {}
  /\ arrived = 0
  /\ drops = 0

\* ARCHIVE_DIR as earlier runs left it, no event pending, no call running.
ArchiveStart ==
  /\ Watching
  /\ \E a \in InitialArchives : files = a.files /\ dirs = a.dirs
  /\ lockFiles = {path.dir : path \in DOMAIN files}
  /\ moveLog = <<>>
  /\ lockHolder = [d \in AllDirs |-> 0]
  /\ queue = [p \in Procs |-> <<>>]
  /\ pc = [p \in Procs |-> "idle"]
  /\ frame = [p \in Procs |-> IdleFrame]
  /\ conn = [p \in Procs |-> "open"]
  /\ sinkUp = TRUE
  /\ published = {}
  /\ nfiles = 0
  /\ faults = 0

ArchiveInit ==
  /\ ArchiveStart
  /\ BackendOff

Init ==
  /\ ArchiveInit
  /\ RecorderInit
  /\ ClockIdle
  /\ CodecIdle
  /\ FilterIdle

\* ------------------------------------------------------------ environment
\* The capture monitor renames a finished segment to `<name>.mp3` in
\* ARCHIVE_DIR (os.rename replaces a file already there) and the rename is
\* observed by the engines in S.
Finalize(name, c, S) ==
  /\ nfiles < MaxFiles
  /\ nfiles' = nfiles + 1
  /\ files' = [p \in DOMAIN files \cup {MkPath(ARCHIVE_DIR, name)} |->
                 IF p = MkPath(ARCHIVE_DIR, name) THEN c ELSE files[p]]
  /\ queue' = [p \in Procs |-> IF p \in S THEN Append(queue[p], name) ELSE queue[p]]
  /\ UNCHANGED <<dirs, lockFiles, lockHolder, pc, frame, conn, sinkUp, published, faults, moveLog>>
  /\ UNCHANGED mvars
  /\ UNCHANGED pvars

\* The broker's state is seen only by an engine inside send_message, so its
\* changes are taken when one is there.
Observed == \E p \in Procs : pc[p] \in {"connect", "publish"}

\* The broker goes away: connections that were open are broken, which the
\* client notices only at its next call.
SinkDown ==
  /\ sinkUp
  /\ Observed
  /\ faults < MaxFaults
  /\ faults' = faults + 1
  /\ sinkUp' = FALSE
  /\ conn' = [p \in Procs |-> IF conn[p] = "open" THEN "stale" ELSE conn[p]]
  /\ UNCHANGED <<files, dirs, lockFiles, lockHolder, queue, pc, frame, published, nfiles, moveLog>>
  /\ UNCHANGED mvars
  /\ UNCHANGED pvars

SinkUp ==
  /\ ~sinkUp
  /\ Observed
  /\ sinkUp' = TRUE
  /\ UNCHANGED <<files, dirs, lockFiles, lockHolder, queue, pc, frame, conn,
                 published, nfiles, faults, moveLog>>
  /\ UNCHANGED mvars
  /\ UNCHANGED pvars

\* An injected failure of a system call (permission, I/O error, full disk).
Fault == faults < MaxFaults /\ faults' = faults + 1
NoFault == faults' = faults

\* ---------------------------------------------------------------- on_moved
\* Lines 158-195: the event is taken, the name matched, the directory chosen
\* and created: os.makedirs(target_dir, exist_ok=True); OSError -> return.
\* The events modelled are the capture monitor's renames `.temp` -> `.mp3` of
\* files, which pass the tests of lines 158-171.
Start(p) ==
  /\ pc[p] = "idle"
  /\ queue[p] # <<>>
  /\ stopped # p
  /\ queue' = [queue EXCEPT ![p] = Tail(@)]
  /\ LET filename == Head(queue[p])
         call == [IdleFrame EXCEPT !.filename = filename,
                                   !.matched = Matches(filename),
                                   !.target_dir = TargetDir(filename)]
     IN \/ /\ NoFault
           /\ dirs' = dirs \cup {TargetDir(filename)}
           /\ frame' = [frame EXCEPT ![p] = call]
           /\ pc' = [pc EXCEPT ![p] = "open_lock"]
        \/ /\ Fault
           /\ frame' = [frame EXCEPT ![p] = [call EXCEPT !.outcome = "mkdir_failed"]]
           /\ pc' = [pc EXCEPT ![p] = "done"]
           /\ UNCHANGED dirs
  /\ UNCHANGED <<files, lockFiles, lockHolder, conn, sinkUp, published, nfiles, moveLog>>
  /\ UNCHANGED mvars
  /\ UNCHANGED pvars

\* Line 119: open(lock_file_path, "w") creates the lock file; a failure is an
\* OSError nothing catches.
OpenLock(p) ==
  /\ pc[p] = "open_lock"
  /\ \/ /\ NoFault
        /\ lockFiles' = lockFiles \cup {frame[p].target_dir}
        /\ pc' = [pc EXCEPT ![p] = "flock"]
        /\ UNCHANGED frame
     \/ /\ Fault
        /\ frame' = [frame EXCEPT ![p].outcome = "exception"]
        /\ pc' = [pc EXCEPT ![p] = "crashed"]
        /\ UNCHANGED lockFiles
  /\ UNCHANGED <<files, dirs, lockHolder, queue, conn, sinkUp, published, nfiles, moveLog>>
  /\ UNCHANGED mvars
  /\ UNCHANGED pvars

\* A lock that excludes nobody (a shared lock, or no flock at all).
LockFree_Always(d) == TRUE

\* One lock for the whole archive tree instead of one per directory.
LockFree_Global(d) == \A e \in AllDirs : lockHolder[e] = 0

\* fcntl.flock(lock_file, LOCK_EX) blocks while another open file description
\* holds the lock.
LockFree(d) == lockHolder[d] = 0

\* Line 121.
Flock(p) ==
  /\ pc[p] = "flock"
  /\ LockFree(frame[p].target_dir)
  /\ lockHolder' = [lockHolder EXCEPT ![frame[p].target_dir] = p]
  /\ pc' = [pc EXCEPT ![p] = "exists"]
  /\ UNCHANGED <<files, dirs, lockFiles, queue, frame, conn, sinkUp, published, nfiles, faults, moveLog>>
  /\ UNCHANGED mvars
  /\ UNCHANGED pvars

\* The move performed without looking at the slot.
SlotOccupied_Never(path) == FALSE

\* Line 203: os.path.exists(new_location).
SlotOccupied(path) == Exists(path)

\* Lines 202-203.
CheckSlot(p) ==
  /\ pc[p] = "exists"
  /\ LET loc == MkPath(frame[p].target_dir, frame[p].filename) IN
       /\ frame' = [frame EXCEPT ![p].new_location = loc]
       /\ pc' = [pc EXCEPT ![p] = IF SlotOccupied(loc) THEN "hash_new" ELSE "replace"]
  /\ UNCHANGED <<files, dirs, lockFiles, lockHolder, queue, conn, sinkUp, published, nfiles, faults, moveLog>>
  /\ UNCHANGED mvars
  /\ UNCHANGED pvars

\* Line 206: compute_file_hash(event.dest_path); None on OSError.
HashNew(p) ==
  /\ pc[p] = "hash_new"
  /\ \/ /\ NoFault
        /\ frame' = [frame EXCEPT ![p].new_file_hash = compute_file_hash(SrcPath(p))]
     \/ /\ Fault
        /\ frame' = [frame EXCEPT ![p].new_file_hash = NoHash]
  /\ pc' = [pc EXCEPT ![p] = "hash_existing"]
  /\ UNCHANGED <<files, dirs, lockFiles, lockHolder, queue, conn, sinkUp, published, nfiles, moveLog>>
  /\ UNCHANGED mvars
  /\ UNCHANGED pvars

\* Digests compared wrongly: equal files taken for a conflict.
IsDuplicate_Never(new_file_hash, existing_file_hash) == FALSE

\* Line 214.
IsDuplicate(new_file_hash, existing_file_hash) == new_file_hash = existing_file_hash

\* A missing occupant digest not noticed.
HashFailed_OnlyNew(new_file_hash, existing_file_hash) == new_file_hash = NoHash

\* Line 208: `new_file_hash is None or existing_file_hash is None`.
HashFailed(new_file_hash, existing_file_hash) ==
  new_file_hash = NoHash \/ existing_file_hash = NoHash

\* Lines 207-230: hash of the occupant, then the comparison.
HashExisting(p) ==
  /\ pc[p] = "hash_existing"
  /\ \E h \in {compute_file_hash(frame[p].new_location), NoHash} :
       /\ IF h = compute_file_hash(frame[p].new_location) THEN NoFault ELSE Fault
       /\ IF HashFailed(frame[p].new_file_hash, h)
          THEN /\ frame' = [frame EXCEPT ![p].existing_file_hash = h,
                                         ![p].outcome = "aborted"]
               /\ pc' = [pc EXCEPT ![p] = "unlock"]
          ELSE IF IsDuplicate(frame[p].new_file_hash, h)
          THEN /\ frame' = [frame EXCEPT ![p].existing_file_hash = h,
                                         ![p].outcome = "duplicate"]
               /\ pc' = [pc EXCEPT ![p] = "unlock"]
          ELSE /\ frame' = [frame EXCEPT ![p].existing_file_hash = h,
                                         ![p].conflict = TRUE,
                                         ![p].counter = 1,
                                         ![p].temp_location = frame[p].new_location]
               /\ pc' = [pc EXCEPT ![p] = "search"]
  /\ UNCHANGED <<files, dirs, lockFiles, lockHolder, queue, conn, sinkUp, published, nfiles, moveLog>>
  /\ UNCHANGED mvars
  /\ UNCHANGED pvars

\* The counter incremented before its first use: the search starts at `-2`.
Candidate_Skip(p) ==
  MkPath(frame[p].target_dir, WithCounter(frame[p].filename, frame[p].counter + 1))

\* Lines 232-233: the next candidate name.
Candidate(p) == MkPath(frame[p].target_dir, WithCounter(frame[p].filename, frame[p].counter))

\* Lines 231-236: one test of the while loop, and its body or its exit.
Search(p) ==
  /\ pc[p] = "search"
  /\ IF Exists(frame[p].temp_location)
     THEN /\ frame' = [frame EXCEPT ![p].temp_location = Candidate(p),
                                    ![p].counter = @ + 1]
          /\ pc' = pc
     ELSE /\ frame' = [frame EXCEPT ![p].new_location = frame[p].temp_location]
          /\ pc' = [pc EXCEPT ![p] = "replace"]
  /\ UNCHANGED <<files, dirs, lockFiles, lockHolder, queue, conn, sinkUp, published, nfiles, faults, moveLog>>
  /\ UNCHANGED mvars
  /\ UNCHANGED pvars

\* Lines 245-258: os.replace(event.dest_path, new_location); OSError -> line
\* 260.  After the move the payload is built from match.group(...): for a name
\* that did not match, match is None and the read raises AttributeError.
Move(p) ==
  /\ pc[p] = "replace"
  /\ \/ /\ Exists(SrcPath(p))
        /\ NoFault
        /\ files' = Replace(files, SrcPath(p), frame[p].new_location)
        /\ moveLog' = Logged(moveLog, frame[p].new_location)
        /\ frame' = [frame EXCEPT ![p].moved = TRUE,
                                  ![p].outcome = IF frame[p].matched THEN @ ELSE "exception"]
        /\ pc' = [pc EXCEPT ![p] = IF frame[p].matched THEN "connect" ELSE "unlock"]
     \/ /\ IF Exists(SrcPath(p)) THEN Fault ELSE NoFault
        /\ pc' = [pc EXCEPT ![p] = "quarantine"]
        /\ UNCHANGED <<files, frame, moveLog>>
  /\ UNCHANGED <<dirs, lockFiles, lockHolder, queue, conn, sinkUp, published, nfiles>>
  /\ UNCHANGED mvars
  /\ UNCHANGED pvars

\* ------------------------------------------------------------ send_message
\* What a failing call of the sink client raises: an AMQPError (for connect,
\* an AMQPConnectionError), an OSError (a socket error the library passes
\* on), or anything else.
ExcKinds == {"amqp", "oserror", "other"}

\* Lines 247-259: the dictionary handed to send_message.
Payload(p) == [filename |-> frame[p].filename, timestamp |-> Groups(frame[p].filename)]

\* Where an exception raised inside the `try` of line 244 takes on_moved:
\* `except OSError` (line 260) or out of the handler.
Raised(p, kind) ==
  /\ frame' = [frame EXCEPT ![p].sinkError = kind,
                            ![p].outcome = IF kind = "oserror" THEN @ ELSE "exception"]
  /\ pc' = [pc EXCEPT ![p] = IF kind = "oserror" THEN "quarantine" ELSE "unlock"]

\* The test without its first half: a client that has no channel does not
\* reconnect.
NeedsConnect_OnlyClosed(c) == c = "closed"

\* mq_client.py line 72: `not self.channel or self.connection.is_closed`.
NeedsConnect(c) == c \in {"none", "closed"}

\* mq_client.py lines 72-74 and connect(), lines 41-63: only
\* AMQPConnectionError is caught there.
Connect(p) ==
  /\ pc[p] = "connect"
  /\ IF ~NeedsConnect(conn[p])
     THEN /\ pc' = [pc EXCEPT ![p] = "publish"]
          /\ UNCHANGED <<frame, conn>>
     ELSE IF sinkUp
     THEN /\ conn' = [conn EXCEPT ![p] = "open"]
          /\ pc' = [pc EXCEPT ![p] = "publish"]
          /\ UNCHANGED frame
     ELSE \E kind \in ExcKinds :
            IF kind = "amqp"
            THEN /\ conn' = [conn EXCEPT ![p] = "none"]
                 /\ frame' = [frame EXCEPT ![p].sinkError = kind]
                 /\ pc' = [pc EXCEPT ![p] = "publish"]
            ELSE /\ Raised(p, kind)
                 /\ UNCHANGED conn
  /\ UNCHANGED <<files, dirs, lockFiles, lockHolder, queue, sinkUp, published, nfiles, faults, moveLog>>
  /\ UNCHANGED mvars
  /\ UNCHANGED pvars

\* The test inverted: publish only when there is no channel.
HasChannel_Inverted(c) == c = "none"

\* mq_client.py line 76: `if self.channel:`.
HasChannel(c) == c # "none"

\* mq_client.py lines 76-87: publish when there is a channel; only AMQPError
\* is caught.
Publish(p) ==
  /\ pc[p] = "publish"
  /\ IF ~HasChannel(conn[p])
     THEN /\ frame' = [frame EXCEPT ![p].outcome = "moved"]
          /\ pc' = [pc EXCEPT ![p] = "unlock"]
          /\ UNCHANGED <<conn, published>>
     ELSE IF conn[p] = "open"
     THEN /\ published' = published \cup {Payload(p)}
          /\ frame' = [frame EXCEPT ![p].sent = Append(@, Payload(p)),
                                    ![p].outcome = "moved"]
          /\ pc' = [pc EXCEPT ![p] = "unlock"]
          /\ UNCHANGED conn
     ELSE \E kind \in ExcKinds :
            /\ conn' = [conn EXCEPT ![p] = "closed"]
            /\ UNCHANGED published
            /\ IF kind = "amqp"
               THEN /\ frame' = [frame EXCEPT ![p].sinkError = kind,
                                              ![p].outcome = "moved"]
                    /\ pc' = [pc EXCEPT ![p] = "unlock"]
               ELSE Raised(p, kind)
  /\ UNCHANGED <<files, dirs, lockFiles, lockHolder, queue, sinkUp, nfiles, faults, moveLog>>
  /\ UNCHANGED mvars
  /\ UNCHANGED pvars

\* Lines 260-275: the handler of OSError moves the source to the unmatched
\* directory with os.replace; nothing catches a failure of that call.
Quarantine(p) ==
  /\ pc[p] = "quarantine"
  /\ LET dst == MkPath(UNMATCHED_DIR, frame[p].filename) IN
       \/ /\ Exists(SrcPath(p))
          /\ UNMATCHED_DIR \in dirs
          /\ NoFault
          /\ files' = Replace(files, SrcPath(p), dst)
          /\ frame' = [frame EXCEPT ![p].quarantined = TRUE,
                                    ![p].outcome = "quarantined"]
       \/ /\ IF Exists(SrcPath(p)) /\ UNMATCHED_DIR \in dirs THEN Fault ELSE NoFault
          /\ frame' = [frame EXCEPT ![p].outcome = "exception"]
          /\ UNCHANGED files
  /\ pc' = [pc EXCEPT ![p] = "unlock"]
  /\ UNCHANGED <<dirs, lockFiles, lockHolder, queue, conn, sinkUp, published, nfiles, moveLog>>
  /\ UNCHANGED mvars
  /\ UNCHANGED pvars

\* A `finally` that leaves the lock held.
Released_Never(d) == lockHolder

\* Line 124: fcntl.flock(lock_file, fcntl.LOCK_UN).
Released(d) == [lockHolder EXCEPT ![d] = 0]

\* Lines 123-124: the `finally` of acquire_lock, on return and on exception.
\* An exception then leaves on_moved and ends the thread that dispatches the
\* events of this engine.
Unlock(p) ==
  /\ pc[p] = "unlock"
  /\ lockHolder' = Released(frame[p].target_dir)
  /\ pc' = [pc EXCEPT ![p] = IF frame[p].outcome = "exception" THEN "crashed" ELSE "done"]
  /\ UNCHANGED <<files, dirs, lockFiles, queue, frame, conn, sinkUp, published, nfiles, faults, moveLog>>
  /\ UNCHANGED mvars
  /\ UNCHANGED pvars

\* on_moved has returned; the engine waits for its next event.
Return(p) ==
  /\ pc[p] = "done"
  /\ pc' = [pc EXCEPT ![p] = "idle"]
  /\ frame' = [frame EXCEPT ![p] = IdleFrame]
  /\ UNCHANGED <<files, dirs, lockFiles, lockHolder, queue, conn, sinkUp, published,
                 nfiles, faults, moveLog>>
  /\ UNCHANGED mvars
  /\ UNCHANGED pvars

Next ==
  \/ \E name \in IncomingNames, c \in Contents, S \in SUBSET Procs \ {{}} :
       Finalize(name, c, S)
  \/ SinkDown
  \/ SinkUp
  \/ \E p \in Procs : Start(p)
  \/ \E p \in Procs : OpenLock(p)
  \/ \E p \in Procs : Flock(p)
  \/ \E p \in Procs : CheckSlot(p)
  \/ \E p \in Procs : HashNew(p)
  \/ \E p \in Procs : HashExisting(p)
  \/ \E p \in Procs : Search(p)
  \/ \E p \in Procs : Move(p)
  \/ \E p \in Procs : Connect(p)
  \/ \E p \in Procs : Publish(p)
  \/ \E p \in Procs : Quarantine(p)
  \/ \E p \in Procs : Unlock(p)
  \/ \E p \in Procs : Return(p)

Spec == Init /\ [][Next]_vars

\* A step of engine p: its observer thread runs on_moved.
Step(p) ==
  \/ Start(p) \/ OpenLock(p) \/ Flock(p) \/ CheckSlot(p) \/ HashNew(p)
  \/ HashExisting(p) \/ Search(p) \/ Move(p) \/ Connect(p) \/ Publish(p)
  \/ Quarantine(p) \/ Unlock(p) \/ Return(p)

\* The engines start on an empty archive, and every engine's thread is
\* scheduled as long as it can run.
FairInit == Init /\ files = <<>>

FairSpec == FairInit /\ [][Next]_vars /\ \A p \in Procs : WF_vars(Step(p))

\* ------------------------------------------------------------------- main
\* Lines 292-301 of file_watchdog.py.  The events are handled in the
\* observer's thread; main() only sleeps until the keyboard interrupt.
\* Line 295-297: KeyboardInterrupt -> observer.stop(): the observer's thread
\* takes no further event, the call of on_moved it is in goes on.
Interrupt(p) ==
  /\ stage = "watching"
  /\ stopped' = p
  /\ stage' = "stopping"
  /\ UNCHANGED <<evars, mvars, cvars, nvars, fvars>>
  /\ UNCHANGED bvars

\* Lines 298-299 and mq_client.py lines 89-93: the `finally` runs as soon as
\* observer.stop() returned; RABBITMQ_CLIENT.close() closes the connection if
\* it is open (a broken one the client still takes for open included).
CloseClient ==
  /\ stage = "stopping"
  /\ conn' = [conn EXCEPT ![stopped] = IF @ \in {"open", "stale"} THEN "closed" ELSE @]
  /\ stage' = "closed"
  /\ UNCHANGED <<files, dirs, lockFiles, lockHolder, queue, pc, frame, sinkUp,
                 published, nfiles, faults, moveLog>>
  /\ UNCHANGED stopped
  /\ UNCHANGED <<mvars, cvars, nvars, fvars>>
  /\ UNCHANGED bvars

\* Line 301: observer.join() returns when the observer's thread has ended,
\* which it does after the call of on_moved it was in.
Join ==
  /\ stage = "closed"
  /\ pc[stopped] \in {"idle", "done", "crashed"}
  /\ stage' = "exited"
  /\ UNCHANGED stopped
  /\ UNCHANGED <<evars, mvars, cvars, nvars, fvars>>
  /\ UNCHANGED bvars

StopNext ==
  \/ Next
  \/ \E p \in Procs : Interrupt(p)
  \/ CloseClient
  \/ Join

\* The engines start on an empty archive.
StopInit == Init /\ files = <<>>

StopSpec == StopInit /\ [][StopNext]_vars

\* ================================================================ backend
\* The consumer of the notifications.  The repository holds it three times:
\*   "app"       app/main.py, app/core/rabbitmq.py, app/services/record_service.py
\*   "main"      main.py
\*   "rabbitmq"  rabbitmq.py
\* The stems of this model are names of station WBOR.
Builds == {"app", "main", "rabbitmq"}

MaxMessages == 2
MaxDrops == 1

\* The body the engine publishes (file_watchdog.py lines 247-258) and a body
\* that is not JSON.
Notice(filename, timestamp) == [filename |-> filename, timestamp |-> timestamp]
Bodies ==
  { [json |-> TRUE, payload |-> Notice(EarlierName, Stamps.X)],
    [json |-> TRUE, payload |-> Notice(EarlierName, Stamps.Y)],
    [json |-> FALSE, payload |-> NoMessage.payload] }

Message(n, body) == [id |-> n, json |-> body.json, payload |-> body.payload]

\* The `args` of threading.Thread(target=_rabbitmq_consumer, args=...):
\* app/core/rabbitmq.py line 81 passes `(stop_event)`, the event itself;
\* main.py line 223 and rabbitmq.py line 143 pass a tuple.
ThreadArgs(b) == IF b = "app" THEN "event" ELSE "tuple"

\* Thread.run calls self._target(*self._args): anything but an iterable
\* raises TypeError in the new thread, which ends.
Unpacks(args) == args = "tuple"

\* The handlers around the `try` of the consume loop: app/core/rabbitmq.py
\* line 64 catches Exception, main.py line 202 and rabbitmq.py line 121 catch
\* AMQPConnectionError.
LoopCatches(b, exc) == IF b = "app" THEN TRUE ELSE exc = "AMQPConnectionError"

\* The handlers around the `try` of the callback: main.py line 168 catches
\* JSONDecodeError and TypeError, the other two catch Exception.
CallbackCatches(b, exc) ==
  IF b = "main" THEN exc \in {"JSONDecodeError", "TypeError"} ELSE TRUE

\* build_expected_filename (record_service.py lines 37-44) and the f-string of
\* main.py line 124 / rabbitmq.py line 52: the name that spells the timestamp,
\* without a counter.
ExpectedName(timestamp) ==
  IF \E s \in DOMAIN Stamps : Stamps[s] = timestamp
  THEN MkName(CHOOSE s \in DOMAIN Stamps : Stamps[s] = timestamp, <<>>)
  ELSE NoName

\* archive_base / year / month / day / filename
ArchivedPath(filename, timestamp) ==
  MkPath(<<timestamp.year, timestamp.month, timestamp.day>>, filename)

Segment(filename, file_path) == [filename |-> filename, archived_path |-> file_path]

Returned(outcome, rows) == [outcome |-> outcome, exc |-> "none", rows |-> rows]
Raises(exc) == [outcome |-> "raised", exc |-> exc, rows |-> segments]

\* db.add(segment); db.commit(): `filename` is unique (models/segment.py), a
\* second row of the same file name fails and is rolled back.
Insert(filename, file_path) ==
  IF \E row \in segments : row.filename = filename
  THEN Returned("duplicate", segments)
  ELSE Returned("stored", segments \cup {Segment(filename, file_path)})

\* record_service.py lines 73-130.  probe_ok: ffprobe can read the file.
process_new_recording(filename, timestamp, probe_ok) ==
  LET file_path == ArchivedPath(filename, timestamp) IN
    IF filename # ExpectedName(timestamp) THEN Returned("mismatch", segments)
    ELSE IF ~Exists(file_path) THEN Returned("not_found", segments)
    ELSE IF ~probe_ok THEN Raises("CalledProcessError")
    ELSE Insert(filename, file_path)

\* main.py lines 124-165 and rabbitmq.py lines 52-83: hash_file gives None for
\* a file that is not there, probe raises FileNotFoundError.
process_inline(filename, timestamp, probe_ok) ==
  LET file_path == ArchivedPath(filename, timestamp) IN
    IF filename # ExpectedName(timestamp) THEN Returned("mismatch", segments)
    ELSE IF ~Exists(file_path) THEN Raises("FileNotFoundError")
    ELSE IF ~probe_ok THEN Raises("CalledProcessError")
    ELSE Insert(filename, file_path)

\* The `try` block of the callback and its `except`.
Processed(b, m, probe_ok) ==
  LET r == IF ~m.json THEN Raises("JSONDecodeError")
           ELSE IF b = "app"
           THEN process_new_recording(m.payload.filename, m.payload.timestamp, probe_ok)
           ELSE process_inline(m.payload.filename, m.payload.timestamp, probe_ok)
  IN IF r.exc = "none" THEN r
     ELSE IF CallbackCatches(b, r.exc) THEN [r EXCEPT !.outcome = "error"]
     ELSE [r EXCEPT !.outcome = "uncaught"]

\* An acknowledgement sent only for a stored segment.
Acknowledges_OnSuccess(outcome) == outcome = "stored"

\* The `finally` of the callback: basic_ack whatever the `try` block did.
Acknowledges(outcome) == TRUE

\* lifespan, before `yield`: the thread is created and started.
StartConsumerThread(b) ==
  /\ lifespan = "off"
  /\ build' = b
  /\ lifespan' = "serving"
  /\ consumer' = IF Unpacks(ThreadArgs(b)) THEN "loop" ELSE "died"
  /\ UNCHANGED <<stop_event, link, ready, unacked, handling, deliveries, segments,
                 arrived, drops>>
  /\ UNCHANGED <<evars, mvars, cvars, nvars, fvars, kvars>>

\* `while not stop_event.is_set():`
LoopTest ==
  /\ consumer = "loop"
  /\ consumer' = IF stop_event THEN "ended" ELSE "connect"
  /\ UNCHANGED <<build, lifespan, stop_event, link, ready, unacked, handling,
                 deliveries, segments, arrived, drops>>
  /\ UNCHANGED <<evars, mvars, cvars, nvars, fvars, kvars>>

\* BlockingConnection(...) up to basic_consume: the consumer is connected and
\* enters start_consuming, or the broker is not reachable and
\* AMQPConnectionError takes the thread to its `except`.
ConnectConsumer ==
  /\ consumer = "connect"
  /\ \/ /\ link' = "open"
        /\ consumer' = "consuming"
        /\ UNCHANGED drops
     \/ /\ drops < MaxDrops
        /\ drops' = drops + 1
        /\ consumer' = "sleeping"
        /\ UNCHANGED link
  /\ UNCHANGED <<build, lifespan, stop_event, ready, unacked, handling,
                 deliveries, segments, arrived>>
  /\ UNCHANGED <<evars, mvars, cvars, nvars, fvars, kvars>>

\* time.sleep(5) of the `except` is over: back to the test of the loop.
RetrySleep ==
  /\ consumer = "sleeping"
  /\ consumer' = "loop"
  /\ UNCHANGED <<build, lifespan, stop_event, link, ready, unacked, handling,
                 deliveries, segments, arrived, drops>>
  /\ UNCHANGED <<evars, mvars, cvars, nvars, fvars, kvars>>

\* The broker routes a message to the queue.
Arrive(body) ==
  /\ arrived < MaxMessages
  /\ arrived' = arrived + 1
  /\ ready' = Append(ready, Message(arrived + 1, body))
  /\ UNCHANGED <<build, lifespan, stop_event, consumer, link, unacked, handling,
                 deliveries, segments, drops>>
  /\ UNCHANGED <<evars, mvars, cvars, nvars, fvars, kvars>>

\* start_consuming with prefetch_count=1 and auto_ack=False: the broker
\* delivers the next message when none is unacknowledged, and the callback
\* is called with it.
Receive ==
  /\ consumer = "consuming"
  /\ link = "open"
  /\ ready # <<>>
  /\ unacked = NoMessage
  /\ unacked' = Head(ready)
  /\ handling' = Head(ready)
  /\ ready' = Tail(ready)
  /\ deliveries' = Append(deliveries, [msg |-> Head(ready), outcome |-> "pending",
                                       acks |-> 0, settled |-> FALSE])
  /\ consumer' = "callback"
  /\ UNCHANGED <<build, lifespan, stop_event, link, segments, arrived, drops>>
  /\ UNCHANGED <<evars, mvars, cvars, nvars, fvars, kvars>>

\* The `try` block of the callback with its `except`.
OnMessage ==
  /\ consumer = "callback"
  /\ \E probe_ok \in BOOLEAN :
       LET r == Processed(build, handling, probe_ok) IN
         /\ segments' = r.rows
         /\ deliveries' = [deliveries EXCEPT ![Len(deliveries)].outcome = r.outcome]
  /\ consumer' = "finally"
  /\ UNCHANGED <<build, lifespan, stop_event, link, ready, unacked, handling,
                 arrived, drops>>
  /\ UNCHANGED <<evars, mvars, cvars, nvars, fvars, kvars>>

\* The `finally` of the callback: ch.basic_ack(delivery_tag).  On an open
\* connection the broker drops the message; on a lost one the call raises.
\* An exception the callback did not catch goes on through start_consuming
\* to the handlers of the loop.
BasicAck ==
  /\ consumer = "finally"
  /\ LET n == Len(deliveries)
         after == IF deliveries[n].outcome = "uncaught" THEN "died" ELSE "consuming"
     IN
       IF ~Acknowledges(deliveries[n].outcome)
       THEN /\ consumer' = after
            /\ UNCHANGED <<deliveries, unacked, link>>
       ELSE IF link = "open"
       THEN /\ deliveries' = [deliveries EXCEPT ![n].acks = @ + 1, ![n].settled = TRUE]
            /\ unacked' = NoMessage
            /\ consumer' = after
            /\ UNCHANGED link
       ELSE \E exc \in {"AMQPConnectionError", "other"} :
              /\ deliveries' = [deliveries EXCEPT ![n].acks = @ + 1]
              /\ consumer' = IF LoopCatches(build, exc) THEN "sleeping" ELSE "died"
              /\ link' = "none"
              /\ UNCHANGED unacked
  /\ handling' = NoMessage
  /\ UNCHANGED <<build, lifespan, stop_event, ready, segments, arrived, drops>>
  /\ UNCHANGED <<evars, mvars, cvars, nvars, fvars, kvars>>

\* The connection breaks; the broker puts the unacknowledged message back at
\* the head of the queue.
LoseLink ==
  /\ link = "open"
  /\ consumer \in {"consuming", "callback", "finally"}
  /\ drops < MaxDrops
  /\ drops' = drops + 1
  /\ link' = "lost"
  /\ ready' = IF unacked # NoMessage THEN <<unacked>> \o ready ELSE ready
  /\ unacked' = NoMessage
  /\ UNCHANGED <<build, lifespan, stop_event, consumer, handling, deliveries,
                 segments, arrived>>
  /\ UNCHANGED <<evars, mvars, cvars, nvars, fvars, kvars>>

\* start_consuming notices the lost connection and raises
\* AMQPConnectionError, which every build catches.
ConsumeFails ==
  /\ consumer = "consuming"
  /\ link = "lost"
  /\ link' = "none"
  /\ consumer' = "sleeping"
  /\ UNCHANGED <<build, lifespan, stop_event, ready, unacked, handling,
                 deliveries, segments, arrived, drops>>
  /\ UNCHANGED <<evars, mvars, cvars, nvars, fvars, kvars>>

\* lifespan, after `yield`: stop_event.set().
SetStopEvent ==
  /\ lifespan = "serving"
  /\ stop_event' = TRUE
  /\ lifespan' = "joining"
  /\ UNCHANGED <<build, consumer, link, ready, unacked, handling, deliveries,
                 segments, arrived, drops>>
  /\ UNCHANGED <<evars, mvars, cvars, nvars, fvars, kvars>>

\* consumer_thread.join() returns when the thread has ended.
JoinConsumer ==
  /\ lifespan = "joining"
  /\ consumer \in {"ended", "died"}
  /\ lifespan' = "down"
  /\ UNCHANGED <<build, stop_event, consumer, link, ready, unacked, handling,
                 deliveries, segments, arrived, drops>>
  /\ UNCHANGED <<evars, mvars, cvars, nvars, fvars, kvars>>

\* A step of the consumer thread.
ConsumerStep ==
  \/ LoopTest \/ ConnectConsumer \/ RetrySleep \/ Receive \/ OnMessage
  \/ BasicAck \/ ConsumeFails

ConsumerNext ==
  \/ \E b \in Builds : StartConsumerThread(b)
  \/ LoopTest
  \/ ConnectConsumer
  \/ RetrySleep
  \/ \E body \in Bodies : Arrive(body)
  \/ Receive
  \/ OnMessage
  \/ BasicAck
  \/ LoseLink
  \/ ConsumeFails
  \/ SetStopEvent
  \/ JoinConsumer

\* The threads of the backend run as long as they can; messages and broken
\* connections come as they may.
ConsumerSpec ==
  /\ Init
  /\ [][ConsumerNext]_vars
  /\ WF_vars(ConsumerStep)
  /\ WF_vars(JoinConsumer)

\* ----------------------------------------------------- engines and backend
\* The backend as its start-up leaves it with a reachable broker: the
\* consumer thread inside start_consuming, or ended where it could not start.
Consuming(b) ==
  /\ build = b
  /\ lifespan = "serving"
  /\ stop_event = FALSE
  /\ consumer = IF Unpacks(ThreadArgs(b)) THEN "consuming" ELSE "died"
  /\ link = IF Unpacks(ThreadArgs(b)) THEN "open" ELSE "none"
  /\ ready = <<>>
  /\ unacked = NoMessage
  /\ handling = NoMessage
  /\ deliveries = <<>>
  /\ segments = {}
  /\ arrived = 0
  /\ drops = 0

\* The notifications the queue has taken so far.  `published` keeps one copy
\* of equal notifications, and so does the queue: a second copy has the same
\* body, and the row made from it has the file name of the first.
Routed ==
  {ready[k].payload : k \in DOMAIN ready}
    \cup {deliveries[k].msg.payload : k \in DOMAIN deliveries}

\* The exchange routes a notification an engine published to the queue.
Route(payload) ==
  /\ payload \in published
  /\ payload \notin Routed
  /\ arrived' = arrived + 1
  /\ ready' = Append(ready, Message(arrived + 1, [json |-> TRUE, payload |-> payload]))
  /\ UNCHANGED <<build, lifespan, stop_event, consumer, link, unacked, handling,
                 deliveries, segments, drops>>
  /\ UNCHANGED <<evars, mvars, cvars, nvars, fvars, kvars>>

PipelineInit ==
  /\ ArchiveStart /\ files = <<>>
  /\ \E b \in Builds : Consuming(b)
  /\ RecorderInit
  /\ ClockIdle
  /\ CodecIdle
  /\ FilterIdle

\* The engines with a broker that stays reachable, and the backend's consumer.
PipelineNext ==
  \/ \E name \in IncomingNames, c \in Contents, S \in SUBSET Procs \ {{}} :
       Finalize(name, c, S)
  \/ \E p \in Procs : Step(p)
  \/ \E name \in IncomingNames : Route(Notice(name, Groups(name)))
  \/ Receive
  \/ OnMessage
  \/ BasicAck

PipelineSpec == PipelineInit /\ [][PipelineNext]_vars

\* ======================================================== capture monitor
\* The capture process names its segments by the time it opens them, so one
\* run never opens the same name twice: segment i is opened after segment i-1.
Segments == 1..MaxSegments

\* The bytes the capture process writes into segment s.
SegmentBytes(s) == s

\* A line of the capture process's log, by the pattern of business_logic it
\* matches (lines 149, 164, 172) and the path the pattern captures:
\*   "ended"    segment:'<path>.temp' count:<n> ended
\*   "opening"  Opening '<path>.temp' for writing
\*   "metadata" Metadata update for StreamTitle: <title>
\*   "other"    anything else
Line(kind, path) == [kind |-> kind, path |-> path]

Emit(log_line) == stderr' = Append(stderr, log_line)

\* self.ffmpeg_process.poll() is None.
Running == ffmpeg = "running"

\* The capture process is running and the monitor has not exited.
Supervised == Running /\ main # "exited"

\* The capture process opens its next segment and logs it.
FfOpen ==
  /\ Supervised
  /\ writing = NoSegment
  /\ nopened < MaxSegments
  /\ nopened' = nopened + 1
  /\ writing' = nopened + 1
  /\ temps' = temps @@ ((nopened + 1) :> SegmentBytes(nopened + 1))
  /\ Emit(Line("opening", nopened + 1))
  /\ UNCHANGED <<active_segment, finals, unlogged, ended_seen, noise, mfaults>>
  /\ UNCHANGED lvars
  /\ UNCHANGED evars
  /\ UNCHANGED pvars

\* The capture process closes the segment it is writing.  It logs the `ended`
\* line at once, or (a log that is late, reordered or incomplete) not yet.
FfClose ==
  /\ Supervised
  /\ writing # NoSegment
  /\ writing' = NoSegment
  /\ \/ /\ Emit(Line("ended", writing))
        /\ UNCHANGED unlogged
     \/ /\ unlogged' = unlogged \cup {writing}
        /\ UNCHANGED stderr
  /\ UNCHANGED <<active_segment, temps, finals, nopened, ended_seen, noise, mfaults>>
  /\ UNCHANGED lvars
  /\ UNCHANGED evars
  /\ UNCHANGED pvars

\* The `ended` line of a segment closed earlier is written late.
FfLateEnded(s) ==
  /\ Supervised
  /\ s \in unlogged
  /\ unlogged' = unlogged \ {s}
  /\ Emit(Line("ended", s))
  /\ UNCHANGED <<active_segment, writing, temps, finals, nopened, ended_seen, noise, mfaults>>
  /\ UNCHANGED lvars
  /\ UNCHANGED evars
  /\ UNCHANGED pvars

\* The capture process logs a stream title or anything else.
FfOther(kind) ==
  /\ Supervised
  /\ noise < MaxNoise
  /\ noise' = noise + 1
  /\ Emit(Line(kind, NoSegment))
  /\ UNCHANGED <<active_segment, writing, temps, finals, nopened, unlogged, ended_seen, mfaults>>
  /\ UNCHANGED lvars
  /\ UNCHANGED evars
  /\ UNCHANGED pvars

\* A monitor that also closes the active segment when the next one opens.
RenamedOn_NextOpen(log_line, active) ==
  IF log_line.kind = "ended" THEN {log_line.path}
  ELSE IF log_line.kind = "opening" /\ active # NoSegment /\ active # log_line.path
  THEN {active}
  ELSE {}

\* A monitor that tries again, at every `ended` line, the renames that failed.
RenamedOn_Retry(log_line, active) ==
  IF log_line.kind = "ended"
  THEN {log_line.path} \cup (ended_seen \cap DOMAIN temps)
  ELSE {}

\* A monitor that closes the active segment on a line it does not recognize.
RenamedOn_Idle(log_line, active) ==
  IF log_line.kind = "ended" THEN {log_line.path}
  ELSE IF log_line.kind = "other" /\ active # NoSegment THEN {active}
  ELSE {}

\* business_logic lines 149-153: the paths handed to rename_temp_to_mp3 while
\* a line is processed.
RenamedOn(log_line, active) ==
  IF log_line.kind = "ended" THEN {log_line.path} ELSE {}

\* A monitor that forgets the active segment on a line that opens nothing.
business_logic_Reset(log_line, active) ==
  IF log_line.kind = "opening" THEN log_line.path ELSE NoSegment

\* business_logic lines 164-168 and 178: the value it returns.
business_logic(log_line, active) ==
  IF log_line.kind = "opening" THEN log_line.path ELSE active

\* rename_temp_to_mp3 lines 121-129: the provisional files among `paths` that
\* exist, and the directory after os.rename of each to its final name
\* (os.rename replaces a final file already there).
Renamable(paths) == paths \cap DOMAIN temps
TempsAfter(paths) == [s \in DOMAIN temps \ paths |-> temps[s]]
FinalsAfter(paths) ==
  [s \in DOMAIN finals \cup Renamable(paths) |->
     IF s \in Renamable(paths) THEN temps[s] ELSE finals[s]]

\* ffmpeg_log_handler lines 220-234: one iteration of the loop.  While the
\* capture process runs, one line is read and business_logic is applied to
\* it.  os.rename may fail (lines 130-132: logged, None returned).
ReadLine ==
  /\ reader = "running"
  /\ Running
  /\ stderr # <<>>
  /\ stderr' = Tail(stderr)
  /\ active_segment' = business_logic(Head(stderr), active_segment)
  /\ ended_seen' = IF Head(stderr).kind = "ended"
                   THEN ended_seen \cup {Head(stderr).path} ELSE ended_seen
  /\ LET paths == RenamedOn(Head(stderr), active_segment) IN
       \/ /\ temps' = TempsAfter(paths)
          /\ finals' = FinalsAfter(paths)
          /\ UNCHANGED mfaults
       \/ /\ Renamable(paths) # {}
          /\ mfaults < MaxRenameFaults
          /\ mfaults' = mfaults + 1
          /\ UNCHANGED <<temps, finals>>
  /\ UNCHANGED <<writing, nopened, unlogged, noise>>
  /\ UNCHANGED lvars
  /\ UNCHANGED evars
  /\ UNCHANGED pvars

\* ffmpeg_log_handler lines 220 and 222-223: the loop ends when poll() is no
\* longer None, or readline returns nothing because the stream is closed.
ReaderStop ==
  /\ reader = "running"
  /\ ~Running
  /\ reader' = "ended"
  /\ UNCHANGED <<ffmpeg, returncode, main, status, sent_signals, signalled, elapsed>>
  /\ UNCHANGED svars
  /\ UNCHANGED evars
  /\ UNCHANGED pvars

\* The reader is a daemon thread (line 327): it is stopped where it stands
\* when the main thread exits.
Killed(r) == IF r = "running" THEN "killed" ELSE r

\* Recorder.run lines 311-328 and 338-345: the sleep is over; Popen starts the
\* capture process and the reader thread, or fails (FileNotFoundError,
\* OSError) and the monitor exits with status 1.
Popen ==
  /\ main = "sleeping"
  /\ \/ /\ ffmpeg' = "running"
        /\ reader' = "running"
        /\ main' = "waiting"
        /\ UNCHANGED status
     \/ /\ main' = "exited"
        /\ status' = "1"
        /\ UNCHANGED <<ffmpeg, reader>>
  /\ UNCHANGED <<returncode, sent_signals, signalled, elapsed>>
  /\ UNCHANGED svars
  /\ UNCHANGED evars
  /\ UNCHANGED pvars

\* The capture process exits: by itself, on an error, or on a signal.  The
\* file it was writing is closed by the exit.
FfExit(code) ==
  /\ Supervised
  /\ ffmpeg' = "exited"
  /\ returncode' = code
  /\ writing' = NoSegment
  /\ UNCHANGED <<main, status, reader, sent_signals, signalled, elapsed>>
  /\ UNCHANGED <<stderr, active_segment, temps, finals, nopened, unlogged, ended_seen,
                 noise, mfaults>>
  /\ UNCHANGED evars
  /\ UNCHANGED pvars

\* Every exit code reported as success.
ExitStatus_Zero(code) == "0"

\* Recorder.run lines 332-337: sys.exit(1) for a code that is not 0, else
\* run returns and the interpreter exits with 0.
ExitStatus(code) == IF code # "ok" THEN "1" ELSE "0"

\* Recorder.run lines 331-337: wait() returns when the capture process has
\* exited.
WaitReturns ==
  /\ main = "waiting"
  /\ ffmpeg = "exited"
  /\ main' = "exited"
  /\ status' = ExitStatus(returncode)
  /\ reader' = Killed(reader)
  /\ UNCHANGED <<ffmpeg, returncode, sent_signals, signalled, elapsed>>
  /\ UNCHANGED svars
  /\ UNCHANGED evars
  /\ UNCHANGED pvars

\* handle_signal lines 196-199 and 208: SIGTERM or SIGINT reaches the monitor;
\* the handler runs in the main thread.  With a running capture process it
\* sends SIGTERM to the process group and waits; otherwise sys.exit(0).
Signal ==
  /\ ~signalled
  /\ main \in {"sleeping", "waiting"}
  /\ signalled' = TRUE
  /\ IF Running
     THEN /\ sent_signals' = Append(sent_signals, "SIGTERM")
          /\ main' = "grace"
          /\ UNCHANGED <<status, reader>>
     ELSE /\ main' = "exited"
          /\ status' = "0"
          /\ reader' = Killed(reader)
          /\ UNCHANGED sent_signals
  /\ UNCHANGED <<ffmpeg, returncode, elapsed>>
  /\ UNCHANGED svars
  /\ UNCHANGED evars
  /\ UNCHANGED pvars

\* A second of handle_signal's wait(timeout=5) passes.
Tick ==
  /\ main = "grace"
  /\ Supervised
  /\ elapsed < GracePeriod
  /\ elapsed' = elapsed + 1
  /\ UNCHANGED <<ffmpeg, returncode, main, status, reader, sent_signals, signalled>>
  /\ UNCHANGED svars
  /\ UNCHANGED evars
  /\ UNCHANGED pvars

\* A wait that gives up at once.
GraceElapsed_AtOnce == TRUE

\* handle_signal line 202: wait(timeout=5) raises TimeoutExpired.
GraceElapsed == elapsed = GracePeriod

\* handle_signal lines 200-208: the wait ends because the capture process
\* has exited, or with TimeoutExpired and SIGKILL to the group; sys.exit(0).
GraceEnd ==
  /\ main = "grace"
  /\ \/ /\ ~Running
        /\ UNCHANGED sent_signals
     \/ /\ Running
        /\ GraceElapsed
        /\ sent_signals' = Append(sent_signals, "SIGKILL")
  /\ main' = "exited"
  /\ status' = "0"
  /\ reader' = Killed(reader)
  /\ UNCHANGED <<ffmpeg, returncode, signalled, elapsed>>
  /\ UNCHANGED svars
  /\ UNCHANGED evars
  /\ UNCHANGED pvars

MonitorInit == Init /\ files = <<>>

MonitorNext ==
  \/ FfOpen
  \/ FfClose
  \/ \E s \in Segments : FfLateEnded(s)
  \/ \E kind \in {"metadata", "other"} : FfOther(kind)
  \/ \E code \in {"ok", "fail"} : FfExit(code)
  \/ ReadLine
  \/ ReaderStop
  \/ Popen
  \/ WaitReturns
  \/ Signal
  \/ Tick
  \/ GraceEnd

MonitorSpec == MonitorInit /\ [][MonitorNext]_vars

\* ---------------------------------------------------------------- restart
\* The monitor is started on a capture directory in which an earlier run
\* left a final file that the engine did not take away (a duplicate, a failed
\* digest, an engine that was not running), under the name the first segment
\* of this run gets.
EarlierBytes(s) == 0 - SegmentBytes(s)

RestartInit ==
  /\ ArchiveInit /\ files = <<>>
  /\ RecorderStart
  /\ finals = [s \in {1} |-> EarlierBytes(s)]
  /\ ClockIdle
  /\ CodecIdle
  /\ FilterIdle

RestartSpec == RestartInit /\ [][MonitorNext]_vars

\* ======================================================= segment boundary
\* recording/recording_driver.py: Recorder.time_until_next_segment and the
\* sleep before the capture process is started.
DaySeconds == 24 * 3600

\* Values of SEGMENT_DURATION_SECONDS: every small one and the usual ones.
Durations == (1..MaxDuration) \cup {60, 300, 3600}

\* Start times: every second of some minutes at the start, the middle and the
\* end of the day.
Instants == [hour : {0, 12, 23}, minute : {0, 30, 59}, second : 0..59]

\* Line 258: now.hour * 3600 + now.minute * 60 + now.second
SecondsSinceMidnight(t) == t.hour * 3600 + t.minute * 60 + t.second

\* now + timedelta(seconds = w), as a time of day.
After(t, w) ==
  LET s == (SecondsSinceMidnight(t) + w) % DaySeconds
  IN [hour |-> s \div 3600, minute |-> (s % 3600) \div 60, second |-> s % 60]

\* Lines 257-275.
time_until_next_segment(t, D) ==
  LET seconds_since_midnight == SecondsSinceMidnight(t)
      remainder == seconds_since_midnight % D
  IN IF remainder # 0 \/ t.second # 0
     THEN IF remainder # 0 THEN D - remainder ELSE D
     ELSE 0

\* Line 311, the argument of time.sleep.
ComputeWait ==
  /\ clock_pc = "start"
  /\ sleep_time' = time_until_next_segment(now, SEGMENT_DURATION_SECONDS)
  /\ clock_pc' = "sleeping"
  /\ UNCHANGED <<now, SEGMENT_DURATION_SECONDS>>
  /\ UNCHANGED <<evars, mvars, nvars, fvars>>
  /\ UNCHANGED xvars

\* Line 311-316: time.sleep returns after sleep_time seconds and the capture
\* process is started.
Wake ==
  /\ clock_pc = "sleeping"
  /\ now' = After(now, sleep_time)
  /\ clock_pc' = "started"
  /\ UNCHANGED <<SEGMENT_DURATION_SECONDS, sleep_time>>
  /\ UNCHANGED <<evars, mvars, nvars, fvars>>
  /\ UNCHANGED xvars

ClockInit ==
  /\ ArchiveInit /\ files = <<>>
  /\ RecorderInit
  /\ CodecIdle
  /\ FilterIdle
  /\ now \in Instants
  /\ SEGMENT_DURATION_SECONDS \in Durations
  /\ sleep_time = 0
  /\ clock_pc = "start"

ClockNext == ComputeWait \/ Wake

ClockSpec == ClockInit /\ [][ClockNext]_vars

\* ============================================================= file names
\* Text is a sequence of one-character strings.
DigitChars == <<"0", "1", "2", "3", "4", "5", "6", "7", "8", "9">>
IsDigit(c) == \E i \in DOMAIN DigitChars : DigitChars[i] = c

\* strftime's %Y, %m, %d, %H, %M, %S: n in decimal, zero-padded to w digits.
RECURSIVE Pad(_, _)
Pad(n, w) ==
  IF w = 0 THEN <<>>
  ELSE Append(Pad(n \div 10, w - 1), DigitChars[(n % 10) + 1])

\* An integer inside an f-string: decimal, no padding.
RECURSIVE Decimal(_)
Decimal(n) ==
  IF n < 10 THEN <<DigitChars[n + 1]>>
  ELSE Append(Decimal(n \div 10), DigitChars[(n % 10) + 1])

Last(text, n) == SubSeq(text, Len(text) - n + 1, Len(text))
DropLast(text, n) == SubSeq(text, 1, Len(text) - n)

MP3 == <<".", "m", "p", "3">>

\* `%Y-%m-%dT%H:%M:%S` of PATTERN (recording_driver.py line 83).
Stamp(t) ==
  Pad(t.year, 4) \o <<"-">> \o Pad(t.month, 2) \o <<"-">> \o Pad(t.day, 2)
    \o <<"T">> \o Pad(t.hour, 2) \o <<":">> \o Pad(t.minute, 2)
    \o <<":">> \o Pad(t.second, 2)

\* The name the capture process gives a segment (PATTERN), after
\* rename_temp_to_mp3 replaced `.temp` by `.mp3`.
SegmentName(station, t) == station \o <<"-">> \o Stamp(t) \o <<"Z">> \o MP3

\* file_watchdog.py lines 228-235: f"{base}-{counter}{ext}" with
\* base, ext = os.path.splitext(filename).
Renumbered(text, counter) ==
  DropLast(text, Len(MP3)) \o <<"-">> \o Decimal(counter) \o Last(text, Len(MP3))

\* Values of STATION_ID.
Stations == {<<"W", "B", "O", "R">>, <<"K", "X">>, <<"A", "-", "1">>}

DateTimes == [year : {1999, 2025}, month : {2, 12}, day : {14},
              hour : {0, 23}, minute : {35}, second : {1, 59}]

\* 0: the name carries no conflict counter.
Counters == {0, 1, MaxCounter}

Origins == [station : Stations, time : DateTimes, counter : Counters]

NameOf(o) ==
  IF o.counter = 0 THEN SegmentName(o.station, o.time)
  ELSE Renumbered(SegmentName(o.station, o.time), o.counter)

\* The digits and separators of the timestamp in FILENAME_REGEX:
\* \d{4}-\d{2}-\d{2}T\d{2}:\d{2}:\d{2}  (d stands for \d)
StampShape == <<"d", "d", "d", "d", "-", "d", "d", "-", "d", "d", "T",
                "d", "d", ":", "d", "d", ":", "d", "d">>

LooksLike(text, shape) ==
  /\ Len(text) = Len(shape)
  /\ \A i \in DOMAIN shape :
       IF shape[i] = "d" THEN IsDigit(text[i]) ELSE text[i] = shape[i]

\* Length of the longest run of digits at the end of text.
RECURSIVE TrailingDigits(_)
TrailingDigits(text) ==
  IF text # <<>> /\ IsDigit(text[Len(text)])
  THEN 1 + TrailingDigits(DropLast(text, 1))
  ELSE 0

\* FILENAME_REGEX.match(filename), file_watchdog.py lines 87-90, read from the
\* end of the name, where the pattern is anchored: `.mp3`, before it an
\* optional `-` and digits, before that `Z`, the timestamp, `-`, and a
\* station id of at least one character.
FILENAME_REGEX(filename) ==
  IF Len(filename) < Len(MP3) \/ Last(filename, Len(MP3)) # MP3 THEN NoMatch
  ELSE
    LET body == DropLast(filename, Len(MP3))
        k == TrailingDigits(body)
        counted == k >= 1 /\ Len(body) > k /\ body[Len(body) - k] = "-"
        core == IF counted THEN DropLast(body, k + 1) ELSE body
        n == Len(StampShape)
        stamp == SubSeq(core, Len(core) - n, Len(core) - 1)
    IN IF /\ Len(core) >= n + 3
          /\ core[Len(core)] = "Z"
          /\ core[Len(core) - n - 1] = "-"
          /\ LooksLike(stamp, StampShape)
       THEN [matched |-> TRUE,
             station_id |-> DropLast(core, n + 2),
             year |-> SubSeq(stamp, 1, 4),
             month |-> SubSeq(stamp, 6, 7),
             day |-> SubSeq(stamp, 9, 10),
             hour |-> SubSeq(stamp, 12, 13),
             minute |-> SubSeq(stamp, 15, 16),
             second |-> SubSeq(stamp, 18, 19),
             counter |-> IF counted THEN Last(body, k) ELSE <<>>]
       ELSE NoMatch

\* backend/app/services/record_service.py lines 37-44.
build_expected_filename(timestamp) ==
  <<"W", "B", "O", "R", "-">> \o timestamp.year \o <<"-">> \o timestamp.month
    \o <<"-">> \o timestamp.day \o <<"T">> \o timestamp.hour \o <<":">>
    \o timestamp.minute \o <<":">> \o timestamp.second \o <<"Z">> \o MP3

\* file_watchdog.py line 177.
Match ==
  /\ codec_pc = "start"
  /\ match' = FILENAME_REGEX(dest_name)
  /\ codec_pc' = "parsed"
  /\ UNCHANGED <<origin, dest_name, expected_filename>>
  /\ UNCHANGED <<evars, mvars, cvars, fvars>>
  /\ UNCHANGED xvars

\* record_service.py line 81, with the timestamp of the message of
\* file_watchdog.py lines 247-258.
Build ==
  /\ codec_pc = "parsed"
  /\ match.matched
  /\ expected_filename' = build_expected_filename(match)
  /\ codec_pc' = "built"
  /\ UNCHANGED <<origin, dest_name, match>>
  /\ UNCHANGED <<evars, mvars, cvars, fvars>>
  /\ UNCHANGED xvars

CodecInit ==
  /\ ArchiveInit /\ files = <<>>
  /\ RecorderInit
  /\ ClockIdle
  /\ FilterIdle
  /\ origin \in Origins
  /\ dest_name = NameOf(origin)
  /\ match = NoMatch
  /\ expected_filename = <<>>
  /\ codec_pc = "start"

CodecNext == Match \/ Build

CodecSpec == CodecInit /\ [][CodecNext]_vars

\* ============================================================ event filter
\* file_watchdog.py, ArchiveHandler.on_moved lines 145-174.
Extensions == {".temp", ".mp3", ".txt", ""}

\* canonical: the base name of dest_path, without its extension, is a station
\* id and a timestamp as FILENAME_REGEX wants them.
Events == [is_directory : BOOLEAN, src_ext : Extensions, dst_ext : Extensions,
           canonical : BOOLEAN]

\* Lines 158-171: the two early returns.  In Python `not a == b and c` is
\* `(not (a == b)) and c`.
Ignored(e) ==
  \/ e.is_directory
  \/ (~(e.src_ext = ".temp")) /\ e.dst_ext = ".mp3"

\* Lines 158-174.
Deliver ==
  /\ filter_pc = "delivered"
  /\ filter_pc' = IF Ignored(event) THEN "returned" ELSE "placing"
  /\ UNCHANGED <<event, effects>>
  /\ UNCHANGED <<evars, mvars, cvars, nvars>>
  /\ UNCHANGED xvars

\* Lines 176-259 when nothing fails and the slot is free: the pattern, which
\* ends in `\.mp3$`, decides the directory; the directory and its lock file
\* are made, the file is moved, and the notification is sent if the name
\* matched (an unmatched name raises at line 250, after the move).
Place ==
  /\ filter_pc = "placing"
  /\ LET matched == event.canonical /\ event.dst_ext = ".mp3"
     IN effects' = [dir |-> IF matched THEN "dated" ELSE "unmatched",
                    lock |-> TRUE, moved |-> TRUE, published |-> matched]
  /\ filter_pc' = "placed"
  /\ UNCHANGED event
  /\ UNCHANGED <<evars, mvars, cvars, nvars>>
  /\ UNCHANGED xvars

FilterInit ==
  /\ ArchiveInit /\ files = <<>>
  /\ RecorderInit
  /\ ClockIdle
  /\ CodecIdle
  /\ event \in Events
  /\ effects = NoEffects
  /\ filter_pc = "delivered"

FilterNext == Deliver \/ Place

FilterSpec == FilterInit /\ [][FilterNext]_vars

\* ============================================================== properties
\* Between flock(LOCK_EX) (line 121) and flock(LOCK_UN) (line 124).
InCritical(p) ==
  pc[p] \in {"exists", "hash_new", "hash_existing", "search", "replace",
             "connect", "publish", "quarantine", "unlock"}

Dated(d) == d # ARCHIVE_DIR /\ d # UNMATCHED_DIR

\* C1: the lock serializes the placements into one directory: two engines
\* are never both between acquiring and releasing the lock of the same
\* directory, and no path is the target of two completed moves of line 245.
C1_Serialized ==
  /\ \A p, q \in Procs :
       (p # q /\ InCritical(p) /\ InCritical(q))
         => frame[p].target_dir # frame[q].target_dir
  /\ \A p \in Procs : InCritical(p) => lockHolder[frame[p].target_dir] = p
  /\ \A path \in DOMAIN moveLog : moveLog[path] <= 1

\* An engine compares digests while another waits for the same lock.
C1_Witness ==
  \E p, q \in Procs :
    /\ p # q
    /\ pc[p] = "hash_existing"
    /\ pc[q] = "flock"
    /\ frame[p].target_dir = frame[q].target_dir

\* C2 (as claimed): no step removes or changes a file of the archive tree
\* (dated directories and the unmatched directory), and no step of an engine
\* (a step that finalizes no segment) makes bytes disappear from the disk.
OnDisk == {files[path] : path \in DOMAIN files}
C2_NoLoss ==
  [][ /\ \A path \in DOMAIN files :
           path.dir # ARCHIVE_DIR => (path \in DOMAIN files' /\ files'[path] = files[path])
      /\ nfiles' = nfiles => OnDisk \subseteq OnDisk' ]_vars

\* C3: a completed move of line 245 into a dated directory has a target that
\* was unoccupied when it was made, and the files of dated directories are
\* never removed or changed.
C3_NoOverwrite ==
  [][ /\ \A p \in Procs :
           (pc[p] = "replace" /\ frame'[p].moved /\ Dated(frame[p].target_dir))
             => ~Exists(frame[p].new_location)
      /\ \A path \in DOMAIN files :
           Dated(path.dir) => (path \in DOMAIN files' /\ files'[path] = files[path]) ]_vars

\* A conflict-renamed file has been moved into a dated directory.
C3_Witness ==
  \E p \in Procs :
    /\ frame[p].moved
    /\ frame[p].conflict
    /\ Dated(frame[p].target_dir)
    /\ pc[p] = "done"

\* C4: once both digests are computed and equal, the call goes nowhere but to
\* the release of the lock: nothing is moved or quarantined, nothing is
\* published, the occupant is still there with its digest while the lock is
\* held, the steps of the call leave the file system and the sink as they
\* were, and the lock is released when the call returns.
Equal(p) ==
  /\ frame[p].new_file_hash # NoHash
  /\ frame[p].new_file_hash = frame[p].existing_file_hash
C4_Duplicate ==
  /\ [] \A p \in Procs :
          (Equal(p) /\ pc[p] # "hash_existing") =>
            /\ pc[p] \in {"unlock", "done"}
            /\ frame[p].outcome = "duplicate"
            /\ ~frame[p].moved /\ ~frame[p].quarantined /\ frame[p].sent = <<>>
            /\ pc[p] = "unlock" =>
                 /\ Exists(frame[p].new_location)
                 /\ Digest(files[frame[p].new_location]) = frame[p].existing_file_hash
                 /\ frame[p].new_location.name = frame[p].filename
            /\ pc[p] = "done" => lockHolder[frame[p].target_dir] # p
  /\ [][ \A p \in Procs :
           (Equal(p)' /\ pc'[p] # pc[p] /\ pc'[p] # "idle")
             => (files' = files /\ published' = published) ]_vars

\* A call has ended as a verified duplicate.
C4_Witness ==
  \E p \in Procs : pc[p] = "done" /\ Equal(p) /\ frame[p].outcome = "duplicate"

\* C5 (as claimed): when a call ends as a verified duplicate the incoming
\* file is gone from its source path: one file of the pair survives.
C5_DuplicateDiscarded ==
  \A p \in Procs :
    (pc[p] = "unlock" /\ frame[p].outcome = "duplicate") => ~Exists(SrcPath(p))

\* The smallest n >= 1 whose name `{base}-{n}{ext}` is unoccupied in the
\* directory.
SmallestFree(d, filename) ==
  CHOOSE n \in 1..(Cardinality(DOMAIN files) + 1) :
    /\ ~Exists(MkPath(d, WithCounter(filename, n)))
    /\ \A m \in 1..(n - 1) : Exists(MkPath(d, WithCounter(filename, m)))

\* C6: after a digest mismatch the move of line 245 goes to `{base}-{n}{ext}`
\* with n the smallest n >= 1 whose name is unoccupied, and when the move is
\* done the occupant and the moved file are both in the directory, under
\* distinct names.
C6_SmallestOrdinal ==
  \A p \in Procs :
    LET slot == MkPath(frame[p].target_dir, frame[p].filename) IN
    /\ (frame[p].conflict /\ pc[p] = "replace") =>
         frame[p].new_location =
           MkPath(frame[p].target_dir,
                  WithCounter(frame[p].filename, SmallestFree(frame[p].target_dir, frame[p].filename)))
    /\ (frame[p].conflict /\ frame[p].moved /\ InCritical(p)) =>
         /\ Exists(slot)
         /\ Exists(frame[p].new_location)
         /\ frame[p].new_location # slot
         /\ Digest(files[slot]) = frame[p].existing_file_hash

\* A third same-named file has been placed as `-2` beside the occupant and `-1`.
C6_Witness ==
  \E p \in Procs :
    /\ pc[p] = "unlock"
    /\ frame[p].conflict /\ frame[p].moved
    /\ frame[p].new_location.name.ord = <<2>>
    /\ Exists(MkPath(frame[p].target_dir, WithCounter(frame[p].filename, 1)))

\* C7 (as claimed): the filename of a published notification is the name
\* under which the file was stored.
C7_FinalFilename ==
  \A p \in Procs : \A i \in DOMAIN frame[p].sent :
    frame[p].sent[i].filename = frame[p].new_location.name

\* C8: for a file whose name matches, when on_moved has ended: one
\* notification was published if the file was moved and no call of the sink
\* client failed, none if it was not moved (duplicate, digest error, failed
\* move); and at every moment a notification was published only after the
\* move, and at most once.
C8_OnePerPlacement ==
  \A p \in Procs :
    /\ Len(frame[p].sent) <= 1
    /\ frame[p].sent # <<>> => (frame[p].moved /\ frame[p].matched)
    /\ (pc[p] \in {"unlock", "done", "crashed"} /\ frame[p].matched) =>
         /\ (frame[p].moved /\ frame[p].sinkError = "none") => Len(frame[p].sent) = 1
         /\ ~frame[p].moved => frame[p].sent = <<>>
         /\ frame[p].outcome \in {"duplicate", "aborted", "quarantined", "mkdir_failed"}
              => frame[p].sent = <<>>

\* A conflict-renamed placement has been notified once.
C8_Witness ==
  \E p \in Procs :
    /\ pc[p] = "done" /\ frame[p].moved /\ frame[p].conflict
    /\ Len(frame[p].sent) = 1

\* C9 (as claimed): a notification is not dropped.  on_moved keeps nothing
\* once it has returned and no other code publishes, so when it has returned
\* for a placed file with the broker reachable, the notification has been
\* published.
C9_NeverDropped ==
  \A p \in Procs :
    (pc[p] = "done" /\ frame[p].moved /\ frame[p].matched /\ sinkUp)
      => frame[p].sent # <<>>

\* C10 (as claimed): after the move of line 245 has succeeded, no failure of
\* the publish makes the handler attempt another file operation: the
\* quarantine move of line 275 is attempted only for a move that failed.
C10_NoRollback ==
  \A p \in Procs : pc[p] = "quarantine" => ~frame[p].moved

\* C11 (as claimed): a file whose name does not match the grammar and whose
\* move succeeded is at unmatched/filename, nothing was published for it, and
\* its handling raises no exception.
C11_UnmatchedNormal ==
  \A p \in Procs :
    (frame[p].filename # NoName /\ ~frame[p].matched /\ frame[p].moved) =>
      /\ frame[p].new_location = MkPath(UNMATCHED_DIR, frame[p].filename)
      /\ frame[p].sent = <<>>
      /\ frame[p].outcome # "exception"

\* C12 (as claimed): no outcome of a call that reached its existence check
\* (unmatched name, digest error, failed move, failed quarantine move, missing
\* source, failed publish) lets an exception leave on_moved, and no engine
\* stops handling events.
C12_NoEscape ==
  \A p \in Procs :
    frame[p].new_location # NoPath =>
      (frame[p].outcome # "exception" /\ pc[p] # "crashed")

\* C13: a placement goes on to the comparison and the ordinal search only
\* with both digests computed; a call in which a digest could not be computed
\* goes nowhere but to the release of the lock: nothing is moved, quarantined
\* or published, its steps leave every file (the incoming one, the occupant,
\* the rest of the directory) and the sink as they were, and the lock is
\* released when the call returns.
C13_DigestAbort ==
  /\ [] \A p \in Procs :
          /\ (frame[p].conflict \/ frame[p].outcome = "duplicate") =>
               (frame[p].new_file_hash # NoHash /\ frame[p].existing_file_hash # NoHash)
          /\ frame[p].outcome = "aborted" =>
               /\ pc[p] \in {"unlock", "done"}
               /\ ~frame[p].moved /\ ~frame[p].quarantined /\ ~frame[p].conflict
               /\ frame[p].sent = <<>>
               /\ pc[p] = "done" => lockHolder[frame[p].target_dir] # p
  /\ [][ \A p \in Procs :
           (frame'[p].outcome = "aborted" /\ pc'[p] # pc[p])
             => (files' = files /\ published' = published) ]_vars

\* A call has been aborted on an injected digest error; the incoming file and
\* the occupant are where they were and the lock is free.
C13_Witness ==
  \E p \in Procs :
    /\ pc[p] = "done" /\ frame[p].outcome = "aborted"
    /\ Exists(SrcPath(p))
    /\ Exists(frame[p].new_location)
    /\ lockHolder[frame[p].target_dir] = 0

\* C14 (as claimed): a call whose move of line 245 failed ends without an
\* exception, whether the quarantine move succeeded or failed, and publishes
\* nothing.
C14_MoveFailureCaught ==
  \A p \in Procs :
    ( /\ pc[p] \in {"unlock", "done", "crashed"}
      /\ frame[p].new_location # NoPath
      /\ ~frame[p].moved
      /\ frame[p].outcome \notin {"duplicate", "aborted"} ) =>
        /\ frame[p].outcome # "exception"
        /\ frame[p].sent = <<>>

\* The exact target path of a call, and the files of the dated directories.
Slot(p) == MkPath(frame[p].target_dir, frame[p].filename)
DatedFiles == [path \in {q \in DOMAIN files : Dated(q.dir)} |-> files[path]]

\* C15: a file delivered again after it was placed under its name is not
\* placed again.  A call chooses an ordinal name only with two computed,
\* different digests; a call that finds its exact target occupied and does
\* not establish such a difference (equal digests: the same bytes; no digest
\* of the source: the event repeats one whose file is already moved) leaves
\* the dated directories and the sink as they were; and a notification is
\* published only by a call that moved a file.
C15_Idempotent ==
  /\ [] \A p \in Procs :
          /\ frame[p].sent # <<>> => frame[p].moved
          /\ frame[p].conflict =>
               /\ frame[p].new_file_hash \in {Digest(c) : c \in Contents}
               /\ frame[p].existing_file_hash \in {Digest(c) : c \in Contents}
               /\ frame[p].new_file_hash # frame[p].existing_file_hash
  /\ [][ \A p \in Procs :
           ( /\ InCritical(p) /\ pc'[p] # pc[p]
             /\ Dated(frame[p].target_dir)
             /\ Exists(Slot(p))
             /\ ~frame[p].moved
             /\ ~frame'[p].conflict )
             => (DatedFiles' = DatedFiles /\ published' = published) ]_vars

\* A file placed and notified in this run was delivered again with the same
\* bytes: the call ended as a duplicate, no `-1` copy exists and one
\* notification has been published.
C15_Witness ==
  \E p \in Procs :
    /\ pc[p] = "done" /\ frame[p].outcome = "duplicate"
    /\ Slot(p) \in DOMAIN moveLog
    /\ ~Exists(MkPath(frame[p].target_dir, WithCounter(frame[p].filename, 1)))
    /\ Cardinality(published) = 1

\* C16: the existence check, the digests, the ordinal search and the moves
\* of a call are made while the call holds the lock of its target directory:
\* the first existence check follows the acquisition, and every change an
\* engine makes to the file system is a move by the holder of a lock.
C16_LockBeforeCheck ==
  /\ [] \A p \in Procs :
          pc[p] \in {"exists", "hash_new", "hash_existing", "search", "replace", "quarantine"}
            => /\ lockHolder[frame[p].target_dir] = p
               /\ frame[p].target_dir \in lockFiles
  /\ [][ /\ \A p \in Procs :
              (pc'[p] = "exists" /\ pc[p] # "exists")
                => (pc[p] = "flock" /\ lockHolder[frame[p].target_dir] = 0
                    /\ lockHolder'[frame[p].target_dir] = p)
         /\ (files' # files /\ nfiles' = nfiles) =>
              \E p \in Procs :
                /\ pc[p] \in {"replace", "quarantine"} /\ pc'[p] # pc[p]
                /\ lockHolder[frame[p].target_dir] = p ]_vars

\* An engine is about to move a conflict-renamed file while another waits for
\* the lock of the same directory.
C16_Witness ==
  \E p, q \in Procs :
    /\ p # q
    /\ pc[p] = "replace" /\ frame[p].conflict
    /\ pc[q] = "flock"
    /\ frame[p].target_dir = frame[q].target_dir

\* C17 (as claimed): a call that acquired the lock and has ended has released
\* it and is in a terminal state: moved and notified (moved, for a name that
\* does not match), discarded, aborted, or move failed with the file
\* quarantined or untouched.
C17_Terminal ==
  \A p \in Procs :
    (pc[p] \in {"done", "crashed"} /\ frame[p].new_location # NoPath) =>
      /\ lockHolder[frame[p].target_dir] # p
      /\ \/ frame[p].moved /\ (frame[p].sent # <<>> \/ ~frame[p].matched)
         \/ frame[p].outcome = "duplicate"
         \/ frame[p].outcome = "aborted"
         \/ ~frame[p].moved /\ frame[p].outcome \in {"quarantined", "exception"}

\* C18 (as claimed): the sink client is not called while the lock of the
\* target directory is held: the lock is released between move and publish.
C18_PublishAfterUnlock ==
  \A p \in Procs :
    pc[p] \in {"connect", "publish"} => lockHolder[frame[p].target_dir] # p

\* C19: a provisional file leaves its provisional name only in the step that
\* processes an `ended` line naming it, and it is then not the file the
\* capture process is writing; every final file has had its `ended` line
\* processed; processing any other line (an `opening` line of a later file
\* included) renames nothing.
C19_RenameOnlyOnEnded ==
  /\ [] \A s \in DOMAIN finals : s \in ended_seen /\ writing # s
  /\ [][ /\ \A s \in DOMAIN temps :
              s \notin DOMAIN temps' =>
                /\ stderr # <<>>
                /\ Head(stderr) = Line("ended", s)
                /\ stderr' = Tail(stderr)
                /\ writing # s
                /\ s \in DOMAIN finals' /\ finals'[s] = temps[s]
         /\ (stderr # <<>> /\ stderr' = Tail(stderr) /\ Head(stderr).kind # "ended")
              => (temps' = temps /\ finals' = finals) ]_vars

\* The first segment is final; the open line of the third has been processed
\* while the second, closed without an `ended` line so far, is still
\* provisional.
C19_Witness ==
  /\ 1 \in DOMAIN finals
  /\ active_segment = 3
  /\ 2 \in DOMAIN temps /\ 2 \notin ended_seen /\ writing # 2

\* C20 (as claimed): when the open line of a segment is processed while
\* another segment is the active one, still provisional, with no `ended` line
\* processed for it, the active one is final when the step is over.
C20_FinalizedByNextOpen ==
  [][ ( /\ stderr # <<>> /\ stderr' = Tail(stderr)
        /\ Head(stderr).kind = "opening"
        /\ active_segment # NoSegment
        /\ active_segment # Head(stderr).path
        /\ active_segment \in DOMAIN temps
        /\ active_segment \notin ended_seen )
      => (active_segment \notin DOMAIN temps' /\ active_segment \in DOMAIN finals') ]_vars

\* C21: the signals sent to the capture process's group are nothing, SIGTERM,
\* or SIGTERM then SIGKILL.  A termination signal that finds the process
\* running sends SIGTERM and waits; one that finds none running sends nothing
\* and the monitor exits with 0.  The wait ends with the monitor's exit:
\* without a further signal if the process has exited, with SIGKILL if it is
\* still running and the whole grace period has elapsed.
C21_SignalOrder ==
  /\ [] /\ sent_signals \in {<<>>, <<"SIGTERM">>, <<"SIGTERM", "SIGKILL">>}
        /\ sent_signals # <<>> => signalled
        /\ main = "grace" => (signalled /\ sent_signals = <<"SIGTERM">> /\ status = "none")
        /\ Len(sent_signals) = 2 => (elapsed = GracePeriod /\ main = "exited")
  /\ [][ /\ (signalled' /\ ~signalled) =>
              IF Running
              THEN sent_signals' = <<"SIGTERM">> /\ main' = "grace" /\ status' = "none"
              ELSE sent_signals' = <<>> /\ main' = "exited" /\ status' = "0"
         /\ (main = "grace" /\ main' # "grace") =>
              /\ main' = "exited" /\ status' = "0"
              /\ IF Running
                 THEN elapsed = GracePeriod /\ sent_signals' = <<"SIGTERM", "SIGKILL">>
                 ELSE sent_signals' = sent_signals
         /\ main # "grace" => Len(sent_signals') <= 1 \/ sent_signals' = sent_signals ]_vars

\* The capture process outlived the grace period and was killed.
C21_Witness ==
  /\ sent_signals = <<"SIGTERM", "SIGKILL">>
  /\ status = "0"
  /\ ffmpeg = "running"

\* C22: while the capture process runs and no termination signal has come,
\* the monitor has not exited, whatever lines were read and whatever renames
\* failed; a monitor that exits without a signal does so because the capture
\* process is not running, and after the process exited with a code that is
\* not 0 the status is 1 (0 for code 0).
C22_ExitOnlyOnProcessExit ==
  /\ [] /\ (Running /\ ~signalled) => (main = "waiting" /\ status = "none")
        /\ (status # "none") <=> (main = "exited")
        /\ (main = "exited" /\ ~signalled /\ ffmpeg = "exited") =>
             /\ returncode = "fail" => status = "1"
             /\ returncode = "ok" => status = "0"
  /\ [][ (main' = "exited" /\ main # "exited" /\ ~signalled') => ~Running ]_vars

\* A rename failed, later the capture process failed and the monitor exited
\* with status 1.
C22_Witness ==
  /\ status = "1"
  /\ returncode = "fail"
  /\ mfaults > 0
  /\ ~signalled

\* The rename of segment s failed: its `ended` line was processed and its
\* provisional file is still there.
RenameFailed(s) == s \in ended_seen /\ s \in DOMAIN temps

\* C23: the step in which a rename fails changes no provisional and no final
\* file and leaves the reader running; from then on the provisional file
\* stays, with its bytes, and no final file of that segment appears, whatever
\* lines are processed later.
C23_RenameFailure ==
  /\ [] \A s \in Segments :
          RenameFailed(s) => (s \notin DOMAIN finals /\ temps[s] = SegmentBytes(s))
  /\ [][ \A s \in Segments :
           /\ RenameFailed(s) =>
                (RenameFailed(s)' /\ temps'[s] = temps[s] /\ s \notin DOMAIN finals')
           /\ (~RenameFailed(s) /\ RenameFailed(s)') =>
                /\ stderr # <<>> /\ Head(stderr) = Line("ended", s)
                /\ stderr' = Tail(stderr)
                /\ temps' = temps /\ finals' = finals
                /\ reader' = "running" ]_vars

\* After a failed rename the open line of a later segment was processed and
\* a later segment was made final.
C23_Witness ==
  \E s, t \in Segments :
    /\ RenameFailed(s)
    /\ s < t
    /\ t \in DOMAIN finals
    /\ active_segment > s

\* C24: processing a stream-title line or a line that matches no pattern
\* renames nothing, leaves the active segment and the record of processed
\* `ended` lines as they were, and leaves the reader and the main thread
\* where they are.
C24_NoEffectLines ==
  [][ (stderr # <<>> /\ stderr' = Tail(stderr)
       /\ Head(stderr).kind \in {"metadata", "other"}) =>
        /\ temps' = temps /\ finals' = finals
        /\ active_segment' = active_segment
        /\ ended_seen' = ended_seen
        /\ reader = "running" /\ reader' = "running"
        /\ main' = main /\ status' = status ]_vars

\* Such a line has been processed while a segment is active and provisional.
C24_Witness ==
  /\ noise > 0
  /\ stderr = <<>>
  /\ active_segment \in DOMAIN temps
  /\ reader = "running"

\* C25: the active segment is one path or none; processing an open line
\* makes it the path of that line, and no other step changes it.
C25_OneActiveSegment ==
  /\ [](active_segment \in Segments \cup {NoSegment})
  /\ [][ IF stderr # <<>> /\ stderr' = Tail(stderr) /\ Head(stderr).kind = "opening"
         THEN active_segment' = Head(stderr).path
         ELSE active_segment' = active_segment ]_vars

\* The second open line replaced the first path, and the `ended` line of the
\* first segment, processed after it, left the second in place.
C25_Witness ==
  /\ active_segment = 2
  /\ 1 \in DOMAIN finals
  /\ 2 \notin ended_seen
  /\ stderr = <<>>

\* C27 (as claimed): when the monitor has exited, every line the capture
\* process wrote has been read and processed.
C27_AllLinesRead ==
  main = "exited" => stderr = <<>>

\* C26 (as claimed): for every start time and every positive segment
\* duration D the computed wait w satisfies 0 <= w <= D and the time of day
\* at which the capture process is started, in seconds since midnight, is a
\* multiple of D.
C26_Aligned ==
  clock_pc = "started" =>
    /\ sleep_time \in 0..SEGMENT_DURATION_SECONDS
    /\ SecondsSinceMidnight(now) % SEGMENT_DURATION_SECONDS = 0

\* C28 (as claimed): for a name made from a station id, a time and possibly
\* a conflict counter, the match yields the six fields as written in the name
\* and the counter when present, and the name rebuilt from the fields is the
\* name without its counter, whatever the station id.
C28_RoundTrip ==
  /\ codec_pc \in {"parsed", "built"} =>
       /\ match.matched
       /\ match.year = Pad(origin.time.year, 4)
       /\ match.month = Pad(origin.time.month, 2)
       /\ match.day = Pad(origin.time.day, 2)
       /\ match.hour = Pad(origin.time.hour, 2)
       /\ match.minute = Pad(origin.time.minute, 2)
       /\ match.second = Pad(origin.time.second, 2)
       /\ match.counter = IF origin.counter = 0 THEN <<>> ELSE Decimal(origin.counter)
  /\ codec_pc = "built" =>
       expected_filename = SegmentName(origin.station, origin.time)

\* C29: a file whose name matches and whose slot was free is moved to
\* ARCHIVE_DIR/year/month/day/filename, fields as written in the name, in a
\* directory that exists; the step that moves it takes the file from where it
\* was to that path and changes no other file; and a notification sent for it
\* carries the file name and the six fields as written in the name.
C29_ScenarioA ==
  /\ [](\A p \in Procs :
          (frame[p].matched /\ ~frame[p].conflict /\ frame[p].moved) =>
            LET fields == Stamps[frame[p].filename.stem]
                slot == MkPath(<<fields.year, fields.month, fields.day>>, frame[p].filename)
            IN /\ frame[p].new_location = slot
               /\ slot.dir \in dirs
               /\ \A i \in DOMAIN frame[p].sent :
                    frame[p].sent[i] = [filename |-> frame[p].filename, timestamp |-> fields])
  /\ [][ \A p \in Procs :
           (frame[p].matched /\ ~frame[p].conflict /\ ~frame[p].moved /\ frame'[p].moved) =>
             LET fields == Stamps[frame[p].filename.stem]
                 slot == MkPath(<<fields.year, fields.month, fields.day>>, frame[p].filename)
                 src == MkPath(ARCHIVE_DIR, frame[p].filename)
             IN /\ src \in DOMAIN files
                /\ DOMAIN files' = (DOMAIN files \ {src}) \cup {slot}
                /\ files'[slot] = files[src]
                /\ \A path \in DOMAIN files' \ {slot} : files'[path] = files[path]
                /\ dirs' = dirs ]_vars

\* A matching file found its slot free, was moved and notified.
C29_Witness ==
  \E p \in Procs :
    /\ pc[p] = "done"
    /\ frame[p].matched /\ ~frame[p].conflict /\ frame[p].moved
    /\ Len(frame[p].sent) = 1
    /\ frame[p].new_location \in DOMAIN files

\* C30 (as claimed): a call of on_moved for a directory, or for a rename
\* that is not from `.temp` to `.mp3`, makes no directory and no lock file,
\* moves nothing and publishes nothing.
C30_OnlyFinalRenames ==
  ~(~event.is_directory /\ event.src_ext = ".temp" /\ event.dst_ext = ".mp3")
    => effects = NoEffects

\* C31 (as claimed): a placement of the interrupted engine that moved a
\* file with a matching name, with no failure of the environment at any
\* time, has published its notification when on_moved has ended; and the
\* process does not exit while on_moved runs.
C31_InFlightCompletes ==
  /\ stage = "exited" => pc[stopped] \in {"idle", "done", "crashed"}
  /\ \A p \in Procs :
       (/\ stopped = p
        /\ pc[p] \in {"done", "crashed"}
        /\ frame[p].matched /\ frame[p].moved
        /\ faults = 0) =>
         Len(frame[p].sent) = 1

\* C32: an engine that waits for the lock of a directory which no other
\* engine has locked can take it, and an engine about to move a file can do
\* so, whatever locks of other directories the other engines hold.
C32_NoContention ==
  \A q \in Procs :
    /\ (/\ pc[q] = "flock"
        /\ \A p \in Procs \ {q} :
             InCritical(p) => frame[p].target_dir # frame[q].target_dir)
         => ENABLED Flock(q)
    /\ pc[q] = "replace" => ENABLED Move(q)

\* Two engines hold the locks of two directories; one of them has moved its
\* file while the other, which holds its lock, has not yet.
C32_Witness ==
  \E p, q \in Procs :
    /\ p # q
    /\ InCritical(p) /\ InCritical(q)
    /\ frame[p].target_dir # frame[q].target_dir
    /\ frame[q].moved /\ ~frame[p].moved
    /\ frame[q].new_location \in DOMAIN files

\* C35 (as claimed): no step of the monitor replaces a final file that is
\* in the capture directory: a final file stays, with its bytes.
C35_NoOverwriteOnFinalize ==
  [][ \A s \in DOMAIN finals :
        s \in DOMAIN finals' /\ finals'[s] = finals[s] ]_vars

\* C36 (as claimed): the step in which the fallback moves a file to the
\* unmatched directory leaves every file that was in that directory in
\* place, with its bytes.
C36_QuarantineKeeps ==
  [][ \A p \in Procs :
        (~frame[p].quarantined /\ frame'[p].quarantined) =>
          \A path \in DOMAIN files :
            path.dir = UNMATCHED_DIR =>
              (path \in DOMAIN files' /\ files'[path] = files[path]) ]_vars

\* C37 (as claimed): a step that puts a file into a directory of the archive
\* tree, the unmatched directory included, or changes one there, is taken by
\* an engine that holds the lock of that directory.
C37_MoveUnderLock ==
  [][ \A path \in DOMAIN files' :
        (/\ path.dir # ARCHIVE_DIR
         /\ path \notin DOMAIN files \/ files'[path] # files[path]) =>
          \E p \in Procs :
            /\ pc[p] \in {"replace", "quarantine"}
            /\ pc'[p] # pc[p]
            /\ lockHolder[path.dir] = p ]_vars

\* C38: an engine holds the lock of at most one directory, and of none
\* while it waits for one; a wait for a lock ends only by getting the lock;
\* and under fair scheduling every wait and every call of on_moved ends:
\* from some moment on every engine is idle or its thread has ended.
C38_NoDeadlock ==
  /\ [](\A p \in Procs :
          /\ Cardinality({d \in AllDirs : lockHolder[d] = p}) <= 1
          /\ pc[p] \in {"open_lock", "flock"} => \A d \in AllDirs : lockHolder[d] # p)
  /\ [][ \A p \in Procs :
           (pc[p] = "flock" /\ pc'[p] # "flock") =>
             (pc'[p] = "exists" /\ lockHolder'[frame[p].target_dir] = p) ]_vars
  /\ <>[](\A p \in Procs : pc[p] \in {"idle", "crashed"})

\* An engine waits for a lock that the other engine holds.
C38_Witness ==
  \E p, q \in Procs :
    /\ pc[p] = "flock"
    /\ lockHolder[frame[p].target_dir] = q
    /\ q # p
    /\ pc[q] = "replace"


\* C33: every call of the consumer's callback calls basic_ack exactly once, and
\* only after the `try` block has ended, whatever it ended with (stored,
\* rejected, error); unless the connection broke, the acknowledgement reaches
\* the broker, and an acknowledged message is neither kept by the broker nor
\* delivered again.
C33_AckOncePerDelivery ==
  \A i \in DOMAIN deliveries :
    LET d == deliveries[i]
        running == i = Len(deliveries) /\ consumer \in {"callback", "finally"}
    IN /\ d.acks <= 1
       /\ d.acks = 1 => d.outcome # "pending"
       /\ ~running => d.acks = 1
       /\ (~running /\ drops = 0) => d.settled
       /\ d.settled =>
            /\ unacked.id # d.msg.id
            /\ \A k \in DOMAIN ready : ready[k].id # d.msg.id
            /\ \A j \in DOMAIN deliveries : j > i => deliveries[j].msg.id # d.msg.id

C33_Witness ==
  \E i, j \in DOMAIN deliveries :
    /\ deliveries[i].outcome = "stored" /\ deliveries[i].settled
    /\ deliveries[j].outcome \in {"mismatch", "error", "uncaught"}
    /\ deliveries[j].settled

\* C34: once the stop event is set, the consumer thread leaves its loop and
\* the join of the shutdown returns.
C34_StopEndsConsumer == stop_event ~> (lifespan = "down")


\* C39: when the engines are idle, every notification is handled by a running
\* consumer and nothing failed (no injected fault, ffprobe read every file),
\* then every file in a dated directory has a segment row whose archived path
\* is the path of that file.
C39_PlacedFileRecorded ==
  ( /\ consumer = "consuming"
    /\ faults = 0
    /\ \A p \in Procs : pc[p] = "idle" /\ queue[p] = <<>>
    /\ published \subseteq Routed
    /\ ready = <<>>
    /\ \A k \in DOMAIN deliveries :
         deliveries[k].outcome \in {"stored", "duplicate", "mismatch"} )
  => \A path \in DOMAIN files :
       Dated(path.dir) => Segment(path.name, path) \in segments

====
